---- MODULE Spec2Model ----
(***************************************************************************)
(* Two-way synchronisation of CRM appointments with an external calendar:  *)
(* the description codec, the outbound push, the inbound import, the       *)
(* conflict resolver and the change-tracking post_save handler.            *)
(*                                                                         *)
(* Every handler runs inside transaction.atomic on a SQLite database       *)
(* (config/settings.py), so a handler is one atomic step of the model.     *)
(* An external insert/patch call either succeeds with its effect or raises *)
(* without effect; a successful response always carries the event id.      *)
(***************************************************************************)
EXTENDS Integers, Sequences, FiniteSets, TLC

\* ------------------------------------------------------------------ bounds
MaxTime == 4        \* operations per behaviour (the clock ticks once per operation)
MaxAppts == 2       \* local appointments
MaxEvents == 2      \* external events
MaxLimit == 2       \* largest --limit tried
MaxContacts == 2    \* local contacts

VARIABLES now, appts, agents, props, contacts, events, last, codec, oauth, run

vars == <<now, appts, agents, props, contacts, events, last, codec, oauth, run>>

stores == <<appts, agents, props, contacts>>

\* ------------------------------------------------------------ small helpers
Range(s) == {s[i] : i \in 1..Len(s)}

Min(a, b) == IF a <= b THEN a ELSE b

\* Python None for an Optional[str]
Absent == "<None>"

\* str.lower() on the strings that occur in the model
Lower(s) ==
  CASE s = "A@X" -> "a@x"
    [] s = "B@X" -> "b@x"
    [] s = "C@X" -> "c@x"
    [] OTHER -> s

\* str.strip() on the strings that occur in the model
Strip(s) ==
  CASE s = " a@x " -> "a@x"
    [] s = " P1 " -> "P1"
    [] s = " " -> ""
    [] OTHER -> s

\* email.split("@")[0]
LocalPart(s) ==
  CASE s = "a@x" -> "a"
    [] s = "b@x" -> "b"
    [] s = "c@x" -> "c"
    [] OTHER -> s

\* --------------------------------------------------------------- datetimes
\* A datetime value or an ISO/RFC3339 string: tag "none" (None / key missing),
\* "bad" (unparsable text), "aware" (wall time with a UTC offset),
\* "naive" (wall time without offset), "date" (date only, all-day).
NoneDT == [tag |-> "none", wall |-> 0, off |-> 0]
BadDT == [tag |-> "bad", wall |-> 0, off |-> 0]
Aware(w, o) == [tag |-> "aware", wall |-> w, off |-> o]
Naive(w) == [tag |-> "naive", wall |-> w, off |-> 0]
DateOnly(w) == [tag |-> "date", wall |-> w, off |-> 0]

\* timezone.now() with USE_TZ = True: aware, UTC
TimezoneNow(t) == Aware(t, 0)

\* google_import._dt_utc_naive
_dt_utc_naive(dt) ==
  IF dt.tag = "none" THEN NoneDT
  ELSE IF dt.tag = "aware" THEN Naive(dt.wall - dt.off)
  ELSE dt

\* google_import._google_updated_from_event: ev["updated"] parsed as RFC3339
_google_updated_from_event(ev) ==
  LET upd == ev.updated IN
  IF upd.tag = "none" THEN NoneDT
  ELSE IF upd.tag = "bad" THEN NoneDT
  ELSE IF upd.tag = "date" THEN Naive(upd.wall)
  ELSE _dt_utc_naive(upd)

\* a resolver that compares the two values without testing that they exist
_should_take_google_unchecked(ev, appt) ==
  IF appt.sync_state = "local" THEN FALSE
  ELSE _google_updated_from_event(ev).wall > _dt_utc_naive(appt.updated_at).wall

\* a resolver that also takes the external version on equal timestamps
_should_take_google_or_equal(ev, appt) ==
  IF appt.sync_state = "local" THEN FALSE
  ELSE LET g_upd == _google_updated_from_event(ev)
           crm_upd == _dt_utc_naive(appt.updated_at)
       IN IF g_upd.tag = "none" \/ crm_upd.tag = "none" THEN FALSE
          ELSE g_upd.wall >= crm_upd.wall

\* google_import._should_take_google
_should_take_google(ev, appt) ==
  IF appt.sync_state = "local" THEN FALSE
  ELSE LET g_upd == _google_updated_from_event(ev)
           crm_upd == _dt_utc_naive(appt.updated_at)
       IN IF g_upd.tag = "none" \/ crm_upd.tag = "none" THEN FALSE
          ELSE g_upd.wall > crm_upd.wall

\* parse_iso, the closure inside import_agent_calendar
parse_iso(s) ==
  IF s.tag = "none" THEN NoneDT
  ELSE IF s.tag = "bad" THEN NoneDT
  ELSE IF s.tag = "aware" THEN Aware(s.wall - s.off, 0)
  ELSE Aware(s.wall, 0)

\* ------------------------------------------------------- description codec
\* A description is a sequence of lines.  A line is the open marker, the
\* close marker, a key=value line, or free text (no '=').
OpenLine == [kind |-> "open", k |-> "", v |-> ""]
CloseLine == [kind |-> "close", k |-> "", v |-> ""]
KV(key, val) == [kind |-> "kv", k |-> key, v |-> val]
Text(label, val) == [kind |-> "text", k |-> label, v |-> val]

\* str.find(marker): index of the first line of that kind, 0 when not found
Find(desc, kind) ==
  IF \E i \in 1..Len(desc) : desc[i].kind = kind
  THEN CHOOSE i \in 1..Len(desc) :
         /\ desc[i].kind = kind
         /\ \A j \in 1..(i - 1) : desc[j].kind # kind
  ELSE 0

\* CrmBlock() with every field None (appointment_id and agent_label are
\* parsed but never read by the import)
EmptyCrmBlock ==
  [appointment_id |-> Absent, property_code |-> Absent,
   property_address |-> Absent, agent_email |-> Absent,
   agent_label |-> Absent, contact_name |-> Absent,
   contact_email |-> Absent, contact_phone |-> Absent]

\* int(v) on the strings that occur in the model, written in decimal;
\* Absent when int() raises ValueError
IntOf(v) ==
  CASE v = "7" -> "7"
    [] v = "07" -> "7"
    [] v = "12" -> "12"
    [] OTHER -> Absent

\* google_import._extract_crm_block: the lines strictly between the markers,
\* <<>> when a marker is missing or the close marker does not come after the
\* open marker
_extract_crm_block(desc) ==
  LET start == Find(desc, "open")
      end == Find(desc, "close")
  IN IF start = 0 \/ end = 0 \/ end <= start THEN <<>>
     ELSE SubSeq(desc, start + 1, end - 1)

\* a decoder that also reads the key the push encoder writes
ParseLine_reads_agent(out, line) ==
  IF line.kind # "kv" THEN out
  ELSE LET k == Strip(line.k)
           v == Strip(line.v)
       IN CASE k = "appointment_id" ->
                 IF IntOf(v) = Absent THEN out
                 ELSE [out EXCEPT !.appointment_id = IntOf(v)]
            [] k = "property_code" -> [out EXCEPT !.property_code = v]
            [] k = "property_address" -> [out EXCEPT !.property_address = v]
            [] k \in {"agent_email", "agent"} -> [out EXCEPT !.agent_email = Lower(v)]
            [] k = "agent_label" -> [out EXCEPT !.agent_label = v]
            [] k = "contact_name" -> [out EXCEPT !.contact_name = v]
            [] k = "contact_email" -> [out EXCEPT !.contact_email = Lower(v)]
            [] k = "contact_phone" -> [out EXCEPT !.contact_phone = v]
            [] OTHER -> out

\* one iteration of the line loop of _parse_crm_block
ParseLine(out, line) ==
  IF line.kind # "kv" THEN out
  ELSE LET k == Strip(line.k)
           v == Strip(line.v)
       IN CASE k = "appointment_id" ->
                 IF IntOf(v) = Absent THEN out
                 ELSE [out EXCEPT !.appointment_id = IntOf(v)]
            [] k = "agent_label" -> [out EXCEPT !.agent_label = v]
            [] k = "property_code" -> [out EXCEPT !.property_code = v]
            [] k = "property_address" -> [out EXCEPT !.property_address = v]
            [] k = "agent_email" -> [out EXCEPT !.agent_email = Lower(v)]
            [] k = "contact_name" -> [out EXCEPT !.contact_name = v]
            [] k = "contact_email" -> [out EXCEPT !.contact_email = Lower(v)]
            [] k = "contact_phone" -> [out EXCEPT !.contact_phone = v]
            [] OTHER -> out

RECURSIVE ParseLines(_, _, _)
ParseLines(out, block, i) ==
  IF i > Len(block) THEN out
  ELSE ParseLines(ParseLine(out, block[i]), block, i + 1)

\* google_import._parse_crm_block
_parse_crm_block(desc) == ParseLines(EmptyCrmBlock, _extract_crm_block(desc), 1)

\* the placeholder for the strftime-formatted time range of the "Orario" line
FmtRange == "dd/mm/yyyy hh:mm - hh:mm"

\* google_calendar._compose_human_description, on the appointment's related
\* rows: ag, pr, ct are the Agent, Property and Contact rows or NoRow
NoRow == [id |-> 0]

_compose_human_description(appt, ag, pr, ct) ==
  (IF ag.id # 0 /\ ag.email # "" THEN <<Text("Agente", ag.email)>> ELSE <<>>)
  \o (IF appt.start.tag # "none" THEN <<Text("Orario", FmtRange)>> ELSE <<>>)
  \o (IF pr.id # 0 /\ pr.code # "" THEN <<Text("Immobile", pr.code)>> ELSE <<>>)
  \o (IF pr.id # 0 /\ pr.address # "" THEN <<Text("Indirizzo", pr.address)>> ELSE <<>>)
  \o (IF ct.id # 0 /\ ct.full_name # "" THEN <<Text("Contatto", ct.full_name)>> ELSE <<>>)
  \o (IF ct.id # 0 /\ ct.phone # "" THEN <<Text("Telefono", ct.phone)>> ELSE <<>>)
  \o (IF ct.id # 0 /\ ct.email # "" THEN <<Text("Email", ct.email)>> ELSE <<>>)
  \o (IF appt.location # "" THEN <<Text("Luogo", appt.location)>> ELSE <<>>)

\* an encoder whose block the import's decoder can read back
_compose_google_description_decodable(user_text, agent_email) ==
  LET meta == IF agent_email # "" THEN <<KV("agent_email", agent_email)>> ELSE <<>>
      crm_block == <<OpenLine>> \o meta \o <<CloseLine>>
  IN IF user_text # <<>> THEN user_text \o <<Text("", "")>> \o crm_block
     ELSE <<Text("RealEstate CRM", "")>> \o <<Text("", "")>> \o crm_block

\* google_calendar._compose_google_description: the human text, a blank line
\* and the block; the block holds the single line agent=<email>
_compose_google_description(user_text, agent_email) ==
  LET meta == IF agent_email # "" THEN <<KV("agent", agent_email)>> ELSE <<>>
      crm_block == <<OpenLine>> \o meta \o <<CloseLine>>
  IN IF user_text # <<>> THEN user_text \o <<Text("", "")>> \o crm_block
     ELSE <<Text("RealEstate CRM", "")>> \o <<Text("", "")>> \o crm_block

\* --------------------------------------------------------------- the rows
\* Appointment.google_event_id = "" (no external event yet)
NoEventId == 0

\* Agent, Property, Contact and Appointment rows; id is the primary key and
\* the position in the table; a foreign key is an id or 0 (NULL)
AgentRow(i, email, name) == [id |-> i, email |-> email, name |-> name]

PropertyRow(i, code, address, title) ==
  [id |-> i, code |-> code, address |-> address, title |-> title]

ContactRow(i, full_name, email, phone) ==
  [id |-> i, full_name |-> full_name, email |-> email, phone |-> phone]

Related(table, fk) == IF fk = 0 THEN NoRow ELSE table[fk]

\* the code synthesised for an event without property_code:
\* f"IMM-{timezone.now().strftime('%Y%m%d%H%M%S')}"
ImmCode(t) ==
  CASE t = 0 -> "IMM-0" [] t = 1 -> "IMM-1" [] t = 2 -> "IMM-2"
    [] t = 3 -> "IMM-3" [] t = 4 -> "IMM-4" [] t = 5 -> "IMM-5"
    [] t = 6 -> "IMM-6" [] t = 7 -> "IMM-7" [] t = 8 -> "IMM-8"
    [] t = 9 -> "IMM-9" [] t = 10 -> "IMM-10" [] t = 11 -> "IMM-11"
    [] OTHER -> "IMM-12"

OrEmpty(s) == IF s = Absent THEN "" ELSE s

\* a lookup that accepts an empty email instead of raising
_ensure_agent_accepts_empty(tbl, email0) ==
  LET email == Lower(Strip(OrEmpty(email0)))
      hit == {j \in 1..Len(tbl) : tbl[j].email = email}
  IN IF hit # {} THEN [ok |-> TRUE, agents |-> tbl, id |-> CHOOSE i \in hit : TRUE]
     ELSE [ok |-> TRUE,
           agents |-> Append(tbl, AgentRow(Len(tbl) + 1, email, LocalPart(email))),
           id |-> Len(tbl) + 1]

\* google_import._ensure_agent: ok = FALSE when it raises (empty email, or
\* get_or_create finds several agents with that email)
_ensure_agent(tbl, email0) ==
  LET email == Lower(Strip(OrEmpty(email0)))
      hit == {j \in 1..Len(tbl) : tbl[j].email = email}
  IN IF email = "" THEN [ok |-> FALSE, agents |-> tbl, id |-> 0]
     ELSE IF Cardinality(hit) > 1 THEN [ok |-> FALSE, agents |-> tbl, id |-> 0]
     ELSE IF hit # {} THEN [ok |-> TRUE, agents |-> tbl, id |-> CHOOSE i \in hit : TRUE]
     ELSE [ok |-> TRUE,
           agents |-> Append(tbl, AgentRow(Len(tbl) + 1, email, LocalPart(email))),
           id |-> Len(tbl) + 1]

\* google_import._ensure_property (Property.code is unique)
_ensure_property(tbl, code0, address0, t) ==
  LET code1 == Strip(OrEmpty(code0))
      address == Strip(OrEmpty(address0))
      code == IF code1 = "" THEN ImmCode(t) ELSE code1
      hit == {j \in 1..Len(tbl) : tbl[j].code = code}
      tbl1 == IF hit # {} THEN tbl
              ELSE Append(tbl, PropertyRow(Len(tbl) + 1, code,
                                           IF address # "" THEN address ELSE code, code))
      i == IF hit # {} THEN CHOOSE j \in hit : TRUE ELSE Len(tbl) + 1
  IN [props |-> IF address # "" /\ tbl1[i].address # address
                THEN [tbl1 EXCEPT ![i].address = address] ELSE tbl1,
      id |-> i]

\* google_import._ensure_contact: raised = TRUE when get_or_create finds
\* several contacts (MultipleObjectsReturned); id = 0 when it returns None
_ensure_contact(tbl, name0, email0, phone0) ==
  LET name == Strip(OrEmpty(name0))
      email == Lower(Strip(OrEmpty(email0)))
      phone == Strip(OrEmpty(phone0))
      hit == IF email # "" THEN {j \in 1..Len(tbl) : tbl[j].email = email}
             ELSE {j \in 1..Len(tbl) :
                     /\ tbl[j].full_name = (IF name # "" THEN name ELSE "Contatto")
                     /\ tbl[j].phone = phone}
      fresh == IF email # ""
               THEN ContactRow(Len(tbl) + 1, IF name # "" THEN name ELSE email, email, phone)
               ELSE ContactRow(Len(tbl) + 1, IF name # "" THEN name ELSE "Contatto", "", phone)
      tbl1 == IF hit # {} THEN tbl ELSE Append(tbl, fresh)
      i == IF hit # {} THEN CHOOSE j \in hit : TRUE ELSE Len(tbl) + 1
      c1 == IF name # "" THEN [tbl1[i] EXCEPT !.full_name = name] ELSE tbl1[i]
      c2 == IF phone # "" THEN [c1 EXCEPT !.phone = phone] ELSE c1
      c3 == IF email # "" THEN [c2 EXCEPT !.email = email] ELSE c2
  IN IF name = "" /\ email = "" /\ phone = ""
     THEN [raised |-> FALSE, contacts |-> tbl, id |-> 0]
     ELSE IF Cardinality(hit) > 1 THEN [raised |-> TRUE, contacts |-> tbl, id |-> 0]
     ELSE [raised |-> FALSE, contacts |-> [tbl1 EXCEPT ![i] = c3], id |-> i]

\* ------------------------------------------------- saving an appointment
\* Model.save(): every column is written, updated_at (auto_now) becomes now
ModelSave(instance, t) == [instance EXCEPT !.updated_at = TimezoneNow(t)]

\* a receiver that marks the row 'local' and leaves last_synced_at in place
appointment_mark_local_on_change_state_only(instance, _skip_mark_local) ==
  IF instance.sync_state # "local"
  THEN [instance EXCEPT !.sync_state = "local"]
  ELSE instance

\* a receiver that also empties sync_error when it marks the row 'local'
appointment_mark_local_on_change_clears_error(instance, _skip_mark_local) ==
  IF instance.sync_state # "local"
  THEN [instance EXCEPT !.sync_state = "local", !.last_synced_at = NoneDT,
                        !.sync_error = ""]
  ELSE instance

\* signals.appointment_mark_local_on_change, the post_save receiver; the
\* nested save(update_fields=[sync_state, last_synced_at]) writes those two
\* columns and re-enters the receiver, which then finds "local" and returns.
\* _skip_mark_local is the attribute the import sets on the instance.
appointment_mark_local_on_change(instance, _skip_mark_local) ==
  IF instance.sync_state # "local"
  THEN [instance EXCEPT !.sync_state = "local", !.last_synced_at = NoneDT]
  ELSE instance

\* the saves the receiver itself performs for one post_save signal: line 30
\* saves again, which sends post_save again to the receiver with the
\* instance it has just changed
RECURSIVE NestedSaves(_)
NestedSaves(instance) ==
  IF instance.sync_state # "local"
  THEN 1 + NestedSaves(appointment_mark_local_on_change(instance, FALSE))
  ELSE 0

\* appt.save() as the database sees it: the row after save and post_save
AppointmentSave(instance, _skip_mark_local, t) ==
  appointment_mark_local_on_change(ModelSave(instance, t), _skip_mark_local)

\* ------------------------------------------------------ the inbound import
\* the running state of one import_agent_calendar call: its 'agent'
\* argument, the tables as the open transaction sees them, the counters,
\* and a log of the decisions
ImportState(agent, a, g, p, c) ==
  [agent |-> agent, appts |-> a, agents |-> g, props |-> p, contacts |-> c,
   created |-> 0, updated |-> 0, skipped |-> 0, decisions |-> <<>>,
   raised |-> FALSE]

Decision(e, res, why, a) == [ev |-> e, res |-> res, why |-> why, appt |-> a]

\* a skip that logs the event without counting it
SkipEvent_uncounted(S, e, why, a) ==
  [S EXCEPT !.decisions = Append(@, Decision(e, "skipped", why, a))]

\* the skip branches of import_agent_calendar: skipped += 1; continue
SkipEvent(S, e, why, a) ==
  [S EXCEPT !.skipped = @ + 1,
            !.decisions = Append(@, Decision(e, "skipped", why, a))]

\* a lookup that never finds the row
FirstMatch_finds_nothing(tbl, gid) == 0

\* Appointment.objects.filter(google_event_id=...).first(): the matching row
\* with the lowest primary key, 0 when there is none
FirstMatch(tbl, gid) ==
  LET hit == {i \in 1..Len(tbl) : tbl[i].google_event_id = gid}
  IN IF hit = {} THEN 0 ELSE CHOOSE i \in hit : \A j \in hit : i <= j

\* a resolver that looks at the timestamps only, whatever the sync_state
ImportDecision_timestamps_only(ev, appt) ==
  LET g_upd == _google_updated_from_event(ev)
      crm_upd == _dt_utc_naive(appt.updated_at)
  IN IF g_upd.tag # "none" /\ crm_upd.tag # "none" /\ g_upd.wall > crm_upd.wall
     THEN "take" ELSE "not_newer"

\* lines 281-296 of import_agent_calendar: what happens to a matched row
ImportDecision(ev, appt) ==
  IF appt.sync_state = "local" THEN "local_wins"
  ELSE IF ~_should_take_google(ev, appt) THEN "not_newer"
  ELSE "take"

\* (ev.get("summary") or "").strip() or "Appuntamento"
TitleOf(ev) == IF Strip(ev.summary) = "" THEN "Appuntamento" ELSE Strip(ev.summary)

\* an owner taken from the 'agent' argument of the call
EventAgent_from_argument(S, crm) ==
  [_ensure_agent(S.agents, crm.agent_email) EXCEPT !.id = S.agent]

\* lines 208-215 of import_agent_calendar: the owner of the appointment is
\* the agent of the block's agent_email
EventAgent(S, crm) == _ensure_agent(S.agents, crm.agent_email)

\* one iteration of the event loop of import_agent_calendar
ImportEvent(S, ev, t) ==
  LET desc == ev.description
      crm == _parse_crm_block(desc)
      ag == EventAgent(S, crm)
      pr == _ensure_property(S.props, crm.property_code, crm.property_address, t)
      ct == _ensure_contact(S.contacts, crm.contact_name, crm.contact_email,
                            crm.contact_phone)
      S1 == [S EXCEPT !.agents = ag.agents, !.props = pr.props,
                      !.contacts = ct.contacts]
      start_dt == parse_iso(ev.start)
      end_dt == parse_iso(ev.end)
      m == FirstMatch(S.appts, ev.id)
      fresh == [id |-> Len(S.appts) + 1, agent |-> ag.id, property |-> pr.id,
                contact |-> ct.id, title |-> TitleOf(ev),
                location |-> Strip(ev.location), start |-> start_dt,
                end |-> end_dt, google_event_id |-> ev.id,
                sync_state |-> "synced", last_synced_at |-> TimezoneNow(t),
                sync_error |-> "", updated_at |-> NoneDT]
      taken == [S.appts[m] EXCEPT !.agent = ag.id, !.property = pr.id,
                                  !.contact = ct.id, !.title = TitleOf(ev),
                                  !.location = Strip(ev.location),
                                  !.start = start_dt, !.end = end_dt,
                                  !.sync_state = "synced",
                                  !.last_synced_at = TimezoneNow(t)]
  IN IF Find(desc, "open") = 0 \/ Find(desc, "close") = 0
     THEN SkipEvent(S, ev.id, "no_block", 0)
     ELSE IF ~ag.ok THEN SkipEvent(S, ev.id, "no_agent", 0)
     ELSE IF ct.raised
     THEN [S EXCEPT !.agents = ag.agents, !.props = pr.props, !.raised = TRUE]
     ELSE IF start_dt.tag = "none" \/ end_dt.tag = "none"
     THEN SkipEvent(S1, ev.id, "no_datetime", 0)
     ELSE IF m = 0
     THEN [S1 EXCEPT !.appts = Append(@, AppointmentSave(fresh, TRUE, t)),
                     !.created = @ + 1,
                     !.decisions = Append(@, Decision(ev.id, "created", "", Len(S.appts) + 1))]
     ELSE IF ImportDecision(ev, S.appts[m]) # "take"
     THEN SkipEvent(S1, ev.id, ImportDecision(ev, S.appts[m]), m)
     ELSE [S1 EXCEPT !.appts[m] = AppointmentSave(taken, TRUE, t),
                     !.updated = @ + 1,
                     !.decisions = Append(@, Decision(ev.id, "updated", "", m))]

RECURSIVE ImportLoop(_, _, _, _)
ImportLoop(S, evs, i, t) ==
  IF i > Len(evs) \/ S.raised THEN S
  ELSE ImportLoop(ImportEvent(S, evs[i], t), evs, i + 1, t)

\* no transaction: what was written before the exception stays
transaction_atomic_without_rollback(before, after) == after

\* @transaction.atomic around import_agent_calendar: the tables after the
\* call are those of the transaction when it returns, the old ones when an
\* exception leaves it
transaction_atomic(before, after) ==
  IF after.raised
  THEN [after EXCEPT !.appts = before.appts, !.agents = before.agents,
                     !.props = before.props, !.contacts = before.contacts]
  ELSE after

\* ------------------------------------------------------- the outbound push
\* the configuration a push finds missing: settings.GOOGLE_TEAM_ACCOUNT_EMAIL,
\* the team's GoogleAccount row, settings.GOOGLE_CALENDAR_ID
ConfigErrors == {"no_team_email", "no_account", "no_calendar_id"}

\* f"PUSH ERROR: {ex}"
PushError(why) ==
  CASE why = "no_team_email" -> "PUSH ERROR: Manca GOOGLE_TEAM_ACCOUNT_EMAIL in settings/.env"
    [] why = "no_account" -> "PUSH ERROR: GoogleAccount team non trovato in DB"
    [] why = "no_calendar_id" -> "PUSH ERROR: Manca GOOGLE_CALENDAR_ID in settings/.env"
    [] why = "cred" -> "PUSH ERROR: Token non valido e non refreshabile (rifai OAuth)."
    [] why = "time" -> "PUSH ERROR: Appointment senza start/end: non posso pushare su Google."
    [] OTHER -> "PUSH ERROR: HttpError"

\* the running state of one push_local_appointments call
PushState(a, e) ==
  [appts |-> a, events |-> e, checked |-> 0, pushed |-> 0, errors |-> 0,
   calls |-> <<>>]

\* an update that drops the returned event id
_safe_update_without_event_id(row, values) ==
  [row EXCEPT !.last_synced_at = values.last_synced_at,
              !.sync_state = values.sync_state,
              !.sync_error = values.sync_error]

\* google_calendar._safe_update_appointment / google_autopush._safe_update:
\* QuerySet.update() of the named columns (updated_at is not touched)
_safe_update(row, values) ==
  [row EXCEPT !.google_event_id = values.google_event_id,
              !.last_synced_at = values.last_synced_at,
              !.sync_state = values.sync_state,
              !.sync_error = values.sync_error]

\* the body sent to the external service for an appointment
EventBody(appt, rows) ==
  [summary |-> IF appt.title = "" THEN "Appuntamento" ELSE appt.title,
   description |-> _compose_google_description(
                     _compose_human_description(appt, rows.agent, rows.property,
                                                rows.contact),
                     IF rows.agent.id = 0 THEN "" ELSE rows.agent.email),
   location |-> appt.location, start |-> appt.start, end |-> appt.end]

\* events().insert(): a new event with an id no event has had before;
\* origin records the appointment it was created for (0: created externally)
EventsInsert(evs, body, a, t) ==
  Append(evs, [id |-> Len(evs) + 1, summary |-> body.summary,
               description |-> body.description, location |-> body.location,
               start |-> body.start, end |-> body.end,
               updated |-> TimezoneNow(t), origin |-> a])

\* events().patch(eventId=...): the supplied fields of that event change
EventsPatch(evs, gid, body, t) ==
  [evs EXCEPT ![gid] = [@ EXCEPT !.summary = body.summary,
                                 !.description = body.description,
                                 !.location = body.location,
                                 !.start = body.start, !.end = body.end,
                                 !.updated = TimezoneNow(t)]]

\* a validation that lets every appointment through
MissingStartOrEnd_unchecked(appt) == FALSE

\* line 248 of upsert_event_for_appointment: not start_dt or not end_dt
MissingStartOrEnd(appt) == appt.start.tag = "none" \/ appt.end.tag = "none"

\* google_calendar.upsert_event_for_appointment; ok = FALSE when it raises
upsert_event_for_appointment(S, a, rows, out, t) ==
  LET appt == S.appts[a]
      google_event_id == appt.google_event_id
      body == EventBody(appt, rows)
      evs == IF google_event_id # NoEventId
             THEN EventsPatch(S.events, google_event_id, body, t)
             ELSE EventsInsert(S.events, body, a, t)
      ev_id == IF google_event_id # NoEventId THEN google_event_id ELSE Len(evs)
  IN IF out \in ConfigErrors \cup {"cred"}
     THEN [ok |-> FALSE, why |-> out, S |-> S, id |-> 0]
     ELSE IF MissingStartOrEnd(appt)
     THEN [ok |-> FALSE, why |-> "time", S |-> S, id |-> 0]
     ELSE IF out = "api" \/ google_event_id > Len(S.events)
     THEN [ok |-> FALSE, why |-> "api", S |-> S, id |-> 0]
     ELSE [ok |-> TRUE, why |-> "",
           S |-> [S EXCEPT !.events = evs,
                           !.appts[a] = _safe_update(@,
                              [google_event_id |-> ev_id,
                               last_synced_at |-> TimezoneNow(t),
                               sync_state |-> "synced", sync_error |-> ""]),
                           !.calls = Append(@, [appt |-> a, event |-> ev_id,
                                      kind |-> IF google_event_id # NoEventId
                                               THEN "patch" ELSE "insert"])],
           id |-> ev_id]

\* an iteration that records the failure and leaves the appointment 'local'
PushOne_leaves_failed_local(S, a, rows, out, t) ==
  LET r == upsert_event_for_appointment(S, a, rows, out, t)
  IN IF r.ok
     THEN [r.S EXCEPT !.checked = @ + 1, !.pushed = @ + 1,
                      !.appts[a] = _safe_update(@,
                         [google_event_id |-> r.id,
                          last_synced_at |-> TimezoneNow(t),
                          sync_state |-> "synced", sync_error |-> ""])]
     ELSE [S EXCEPT !.checked = @ + 1, !.errors = @ + 1,
                    !.appts[a] = _safe_update(@,
                       [google_event_id |-> @.google_event_id,
                        last_synced_at |-> TimezoneNow(t),
                        sync_state |-> "local", sync_error |-> PushError(r.why)])]

\* an iteration that stores the id the appointment had before the call
\* in place of the id of the returned event
PushOne_stores_previous_id(S, a, rows, out, t) ==
  LET r == upsert_event_for_appointment(S, a, rows, out, t)
  IN IF r.ok
     THEN [r.S EXCEPT !.checked = @ + 1, !.pushed = @ + 1,
                      !.appts[a] = _safe_update(@,
                         [google_event_id |-> S.appts[a].google_event_id,
                          last_synced_at |-> TimezoneNow(t),
                          sync_state |-> "synced", sync_error |-> ""])]
     ELSE [S EXCEPT !.checked = @ + 1, !.errors = @ + 1,
                    !.appts[a] = _safe_update(@,
                       [google_event_id |-> @.google_event_id,
                        last_synced_at |-> TimezoneNow(t),
                        sync_state |-> "error", sync_error |-> PushError(r.why)])]

\* one iteration of the loop of push_local_appointments (lines 48-76)
PushOne(S, a, rows, out, t) ==
  LET r == upsert_event_for_appointment(S, a, rows, out, t)
  IN IF r.ok
     THEN [r.S EXCEPT !.checked = @ + 1, !.pushed = @ + 1,
                      !.appts[a] = _safe_update(@,
                         [google_event_id |-> r.id,
                          last_synced_at |-> TimezoneNow(t),
                          sync_state |-> "synced", sync_error |-> ""])]
     ELSE [S EXCEPT !.checked = @ + 1, !.errors = @ + 1,
                    !.appts[a] = _safe_update(@,
                       [google_event_id |-> @.google_event_id,
                        last_synced_at |-> TimezoneNow(t),
                        sync_state |-> "error", sync_error |-> PushError(r.why)])]

\* the selection without the [:limit] slice
LocalBatch_unsliced(tbl, limit) ==
  LET loc == {i \in 1..Len(tbl) : tbl[i].sync_state = "local"}
      k == Cardinality(loc)
  IN CHOOSE q \in [1..k -> loc] : \A i, j \in 1..k : i < j => q[i] < q[j]

\* .filter(sync_state="local").order_by("id")[:limit]
LocalBatch(tbl, limit) ==
  LET loc == {i \in 1..Len(tbl) : tbl[i].sync_state = "local"}
      k == Cardinality(loc)
      ordered == CHOOSE q \in [1..k -> loc] : \A i, j \in 1..k : i < j => q[i] < q[j]
  IN SubSeq(ordered, 1, Min(limit, k))

\* a loop that gives up at the first appointment that fails
RECURSIVE PushLoop_stops_at_error(_, _, _, _, _)
PushLoop_stops_at_error(S, batch, i, out, t) ==
  IF i > Len(batch) \/ S.errors > 0 THEN S
  ELSE PushLoop_stops_at_error(
         PushOne(S, batch[i],
                 [agent |-> Related(agents, S.appts[batch[i]].agent),
                  property |-> Related(props, S.appts[batch[i]].property),
                  contact |-> Related(contacts, S.appts[batch[i]].contact)],
                 out[i], t),
         batch, i + 1, out, t)

RECURSIVE PushLoop(_, _, _, _, _)
PushLoop(S, batch, i, out, t) ==
  IF i > Len(batch) THEN S
  ELSE PushLoop(PushOne(S, batch[i],
                        [agent |-> Related(agents, S.appts[batch[i]].agent),
                         property |-> Related(props, S.appts[batch[i]].property),
                         contact |-> Related(contacts, S.appts[batch[i]].contact)],
                        out[i], t),
                batch, i + 1, out, t)

\* one iteration of the loop of the google_push command (Command.handle,
\* lines 34-49): the error branch records no message
CommandPushOne(S, a, rows, out, t) ==
  LET r == upsert_event_for_appointment(S, a, rows, out, t)
  IN IF r.ok
     THEN [r.S EXCEPT !.checked = @ + 1, !.pushed = @ + 1,
                      !.appts[a].sync_state = "synced",
                      !.appts[a].last_synced_at = TimezoneNow(t)]
     ELSE [S EXCEPT !.checked = @ + 1, !.errors = @ + 1,
                    !.appts[a].sync_state = "error",
                    !.appts[a].last_synced_at = TimezoneNow(t)]

RECURSIVE CommandPushLoop(_, _, _, _, _)
CommandPushLoop(S, batch, i, out, t) ==
  IF i > Len(batch) THEN S
  ELSE CommandPushLoop(CommandPushOne(S, batch[i],
                        [agent |-> Related(agents, S.appts[batch[i]].agent),
                         property |-> Related(props, S.appts[batch[i]].property),
                         contact |-> Related(contacts, S.appts[batch[i]].contact)],
                        out[i], t),
                batch, i + 1, out, t)

\* ------------------------------------------------------------ environment
\* the external events an outside user writes: summary, description,
\* location, start and end of the event
EvTemplates ==
  << \* not a CRM event: no block
     [summary |-> "g1", description |-> <<Text("note", "")>>, location |-> "",
      start |-> Aware(3, 1), end |-> Aware(4, 1)],
     \* a full block, times with a +01:00 offset
     [summary |-> "g2",
      description |-> <<Text("Agente", "b@x"), OpenLine, KV("agent_email", "b@x"),
                        KV("property_code", "P1"), KV("property_address", "addr1"),
                        KV("contact_email", "c@x"), CloseLine>>,
      location |-> "loc2", start |-> Aware(3, 1), end |-> Aware(4, 1)],
     \* upper-case agent, contact by name, no property code, all-day
     [summary |-> "",
      description |-> <<OpenLine, KV("agent_email", "A@X"), Text("free text", ""),
                        KV("contact_name", "Ann"), CloseLine>>,
      location |-> "", start |-> DateOnly(5), end |-> DateOnly(6)],
     \* a block without agent_email
     [summary |-> "g4",
      description |-> <<OpenLine, KV("property_code", "P1"), CloseLine>>,
      location |-> "", start |-> Aware(3, 0), end |-> Aware(4, 0)],
     \* a full block on an event without a usable end
     [summary |-> "g5",
      description |-> <<OpenLine, KV("agent_email", "a@x"),
                        KV("property_code", "P1"), KV("property_address", "addr5"),
                        CloseLine>>,
      location |-> "", start |-> Aware(3, 0), end |-> BadDT] >>

\* what an outside user writes at local time t: a template and the event's
\* 'updated' value, which is missing, unparsable, or an RFC3339 time of the
\* external clock (in step with the local clock, or behind it), in UTC or
\* with a +01:00 offset
ExtInputs(t) ==
  { [tpl |-> EvTemplates[1], updated |-> Aware(t, 0)],
    [tpl |-> EvTemplates[2], updated |-> Aware(t, 0)],
    [tpl |-> EvTemplates[2], updated |-> Aware(1, 1)],
    [tpl |-> EvTemplates[3], updated |-> NoneDT],
    [tpl |-> EvTemplates[3], updated |-> Aware(0, 0)],
    [tpl |-> EvTemplates[4], updated |-> BadDT],
    [tpl |-> EvTemplates[5], updated |-> Aware(t, 0)] }

\* the outcomes of the external calls of one batch: a piece of the
\* configuration is missing or the team credentials are unusable for the
\* whole run, or each call succeeds or raises
BatchOutcomes(n) ==
  {[i \in 1..n |-> why] : why \in ConfigErrors \cup {"cred"}}
    \cup [1..n -> {"ok", "api"}]

\* the outcomes for the google_push command, which treats every exception
\* alike: each call succeeds or raises
CommandOutcomes(n) == [1..n -> {"ok", "api"}]

Titles == {"t1", "t2"}

\* the result record of the last operation
NoLast ==
  [op |-> "init", agent |-> 0, limit |-> 0, batch |-> <<>>, out |-> <<>>, calls |-> <<>>,
   checked |-> 0,
   pushed |-> 0, errors |-> 0, created |-> 0, updated |-> 0,
   skipped |-> 0, decisions |-> <<>>, raised |-> FALSE, partial |-> 0]

CodecOff == [phase |-> "off"]

\* no operation is part-way through: in Spec every handler is one step
RunOff == [phase |-> "off"]

\* the credential side when it is not under study: the outcome of the
\* credential step is then an input of the push (BatchOutcomes)
OAuthOff == [accounts |-> <<>>, GOOGLE_TOKEN_URI |-> "", requests |-> 0]

Init ==
  /\ now = 0
  /\ appts = <<>>
  /\ agents = <<AgentRow(1, "a@x", "a")>>
  /\ props = <<>>
  /\ contacts = <<ContactRow(1, "Ann", "", "")>>
  /\ events = <<>>
  /\ last = NoLast
  /\ codec = CodecOff
  /\ oauth = OAuthOff
  /\ run = RunOff

\* views_crm.appointment_new: a new appointment saved from the form
AppointmentNew(ag) ==
  /\ now < MaxTime
  /\ Len(appts) < MaxAppts
  /\ appts' = Append(appts, AppointmentSave(
                [id |-> Len(appts) + 1, agent |-> ag, property |-> 0, contact |-> 0,
                 title |-> "t1", location |-> "", start |-> Aware(1, 0),
                 end |-> Aware(2, 0), google_event_id |-> NoEventId,
                 sync_state |-> "local", last_synced_at |-> NoneDT,
                 sync_error |-> "", updated_at |-> NoneDT], FALSE, now))
  /\ last' = [NoLast EXCEPT !.op = "new"]
  /\ now' = now + 1
  /\ UNCHANGED <<agents, props, contacts, events, codec, oauth, run>>

\* views_crm.appointment_edit: the form's fields are set and the row saved
AppointmentEdit(a, title) ==
  /\ now < MaxTime
  /\ a \in 1..Len(appts)
  /\ appts' = [appts EXCEPT ![a] = AppointmentSave([@ EXCEPT !.title = title], FALSE, now)]
  /\ last' = [NoLast EXCEPT !.op = "edit"]
  /\ now' = now + 1
  /\ UNCHANGED <<agents, props, contacts, events, codec, oauth, run>>

\* views_crm.contact_new: ContactForm.save()
ContactNew(email) ==
  /\ now < MaxTime
  /\ Len(contacts) < MaxContacts
  /\ contacts' = Append(contacts, ContactRow(Len(contacts) + 1, "Ann", email, ""))
  /\ last' = [NoLast EXCEPT !.op = "contact"]
  /\ now' = now + 1
  /\ UNCHANGED <<appts, agents, props, events, codec, oauth, run>>

\* an outside user creates an event in the shared calendar
ExternalCreate(inp) ==
  /\ now < MaxTime
  /\ Len(events) < MaxEvents
  /\ events' = Append(events, [id |-> Len(events) + 1, summary |-> inp.tpl.summary,
                               description |-> inp.tpl.description,
                               location |-> inp.tpl.location,
                               start |-> inp.tpl.start, end |-> inp.tpl.end,
                               updated |-> inp.updated, origin |-> 0])
  /\ last' = [NoLast EXCEPT !.op = "ext_create"]
  /\ now' = now + 1
  /\ UNCHANGED <<appts, agents, props, contacts, codec, oauth, run>>

\* an outside user edits an event of the shared calendar
ExternalEdit(e, inp) ==
  /\ now < MaxTime
  /\ e \in 1..Len(events)
  /\ events' = [events EXCEPT ![e] = [@ EXCEPT !.summary = inp.tpl.summary,
                                               !.description = inp.tpl.description,
                                               !.location = inp.tpl.location,
                                               !.start = inp.tpl.start,
                                               !.end = inp.tpl.end,
                                               !.updated = inp.updated]]
  /\ last' = [NoLast EXCEPT !.op = "ext_edit"]
  /\ now' = now + 1
  /\ UNCHANGED <<appts, agents, props, contacts, codec, oauth, run>>

\* google_autopush.push_local_appointments(limit=limit); out[i] is what
\* happens to the external calls of the i-th appointment of the batch
Push(limit, out) ==
  /\ now < MaxTime
  /\ LET batch == LocalBatch(appts, limit)
         S == PushLoop(PushState(appts, events), batch, 1, out, now)
     IN /\ Len(S.events) <= MaxEvents
        /\ appts' = S.appts
        /\ events' = S.events
        /\ last' = [NoLast EXCEPT !.op = "push", !.limit = limit, !.batch = batch,
                                  !.out = out, !.calls = S.calls,
                                  !.checked = S.checked, !.pushed = S.pushed,
                                  !.errors = S.errors]
  /\ now' = now + 1
  /\ UNCHANGED <<agents, props, contacts, codec, oauth, run>>

\* the google_push management command with --limit limit
GooglePush(limit, out) ==
  /\ now < MaxTime
  /\ LET batch == LocalBatch(appts, limit)
         S == CommandPushLoop(PushState(appts, events), batch, 1, out, now)
     IN /\ Len(S.events) <= MaxEvents
        /\ appts' = S.appts
        /\ events' = S.events
        /\ last' = [NoLast EXCEPT !.op = "google_push", !.limit = limit,
                                  !.batch = batch, !.out = out, !.calls = S.calls,
                                  !.checked = S.checked, !.pushed = S.pushed,
                                  !.errors = S.errors]
  /\ now' = now + 1
  /\ UNCHANGED <<agents, props, contacts, codec, oauth, run>>

\* google_calendar.list_events_for_range: the events of the calendar in the
\* order the service returns them
list_events_for_range(order) == [i \in 1..Len(events) |-> events[order[i]]]

Orders == {f \in [1..Len(events) -> 1..Len(events)] :
             \A i, j \in 1..Len(events) : i # j => f[i] # f[j]}

\* google_import.import_agent_calendar(agent) on the current tables, evs
\* being the events the fetch returns: run is the state of the call when it ends, done what the database holds
\* afterwards; fetch_ok = FALSE: the fetch raises
import_agent_calendar(agent, evs, fetch_ok, t) ==
  LET S0 == ImportState(agent, appts, agents, props, contacts)
      S == IF fetch_ok THEN ImportLoop(S0, evs, 1, t)
           ELSE [S0 EXCEPT !.raised = TRUE]
  IN [run |-> S, done |-> transaction_atomic(S0, S)]

\* a run of import_agent_calendar for one of the agents
Import(agent, order, fetch_ok) ==
  /\ now < MaxTime
  /\ agent \in 1..Len(agents)
  /\ \E r \in {import_agent_calendar(agent, list_events_for_range(order),
                                     fetch_ok, now)} :
       \E S \in {r.run}, C \in {r.done} :
        /\ Len(C.appts) <= MaxAppts
        /\ appts' = C.appts
        /\ agents' = C.agents
        /\ props' = C.props
        /\ contacts' = C.contacts
        /\ last' = IF S.raised
                   THEN [NoLast EXCEPT !.op = "import", !.agent = agent,
                                       !.raised = TRUE,
                                       !.partial = S.created + S.updated]
                   ELSE [NoLast EXCEPT !.op = "import", !.agent = agent,
                                       !.created = S.created, !.updated = S.updated,
                                       !.skipped = S.skipped,
                                       !.decisions = S.decisions]
  /\ now' = now + 1
  /\ UNCHANGED <<events, codec, oauth, run>>

Next ==
  \/ \E ag \in {0, 1} : AppointmentNew(ag)
  \/ \E a \in 1..MaxAppts, title \in Titles : AppointmentEdit(a, title)
  \/ \E email \in {"", "c@x"} : ContactNew(email)
  \/ \E inp \in ExtInputs(now) : ExternalCreate(inp)
  \/ \E e \in 1..MaxEvents, inp \in ExtInputs(now) : ExternalEdit(e, inp)
  \/ \E limit \in 0..MaxLimit :
       \E out \in BatchOutcomes(Len(LocalBatch(appts, limit))) : Push(limit, out)
  \/ \E limit \in 0..MaxLimit :
       \E out \in CommandOutcomes(Len(LocalBatch(appts, limit))) : GooglePush(limit, out)
  \/ \E agent \in 1..(MaxEvents + 1), order \in Orders, fetch_ok \in BOOLEAN :
       Import(agent, order, fetch_ok)

Spec == Init /\ [][Next]_vars

\* ------------------------------------------------- the codec on its own
\* The appointments the encoder is applied to: the agent, property and
\* contact rows of the appointment (or none) and its location.
CodecAgents == {NoRow} \cup {AgentRow(1, e, "n") : e \in {"", "a@x", "A@X"}}

CodecProps == {NoRow} \cup {PropertyRow(1, "P1", a, "P1") : a \in {"", "addr1"}}

CodecContacts ==
  {NoRow} \cup {ContactRow(1, n, e, ph) :
                  n \in {"", "Ann"}, e \in {"", "c@x"}, ph \in {"", "555"}}

InitCodec ==
  /\ now = 0
  /\ appts = <<>>
  /\ agents = <<>>
  /\ props = <<>>
  /\ contacts = <<>>
  /\ events = <<>>
  /\ last = NoLast
  /\ codec \in [phase : {"in"}, agent : CodecAgents, property : CodecProps,
                contact : CodecContacts, location : {"", "loc"},
                description : {<<>>}, crm : {EmptyCrmBlock}]
  /\ oauth = OAuthOff
  /\ run = RunOff

\* lines 242-258 of upsert_event_for_appointment: the description of the
\* event body
Encode ==
  /\ codec.phase = "in"
  /\ codec' = [codec EXCEPT
       !.phase = "encoded",
       !.description = _compose_google_description(
          _compose_human_description(
             [start |-> Aware(1, 0), location |-> codec.location],
             codec.agent, codec.property, codec.contact),
          IF codec.agent.id = 0 THEN "" ELSE codec.agent.email)]
  /\ UNCHANGED <<now, appts, agents, props, contacts, events, last, oauth, run>>

\* line 206 of import_agent_calendar: the block read back
Decode ==
  /\ codec.phase = "encoded"
  /\ codec' = [codec EXCEPT !.phase = "decoded",
                            !.crm = _parse_crm_block(codec.description)]
  /\ UNCHANGED <<now, appts, agents, props, contacts, events, last, oauth, run>>

NextCodec == Encode \/ Decode

SpecCodec == InitCodec /\ [][NextCodec]_vars

\* ------------------------------------------------ the decoder on its own
\* _parse_crm_block on description texts of up to MaxLines lines: markers
\* in any number and order, free text, recognised keys (upper case, padded,
\* empty, repeated), the key the encoder writes, appointment_id with and
\* without an integer value.
MaxLines == 4

DecodeLines ==
  {OpenLine, CloseLine, Text("note", ""), KV("agent", "a@x"),
   KV("agent_email", "A@X"), KV("property_code", " P1 "),
   KV("property_code", ""), KV("agent_label", "n"),
   KV("appointment_id", "07"), KV("appointment_id", "x")}

InitDecode ==
  /\ now = 0
  /\ appts = <<>>
  /\ agents = <<>>
  /\ props = <<>>
  /\ contacts = <<>>
  /\ events = <<>>
  /\ last = NoLast
  /\ \E n \in 0..MaxLines : \E desc \in [1..n -> DecodeLines] :
       codec = [phase |-> "text", description |-> desc, crm |-> EmptyCrmBlock]
  /\ oauth = OAuthOff
  /\ run = RunOff

\* crm = _parse_crm_block(desc)
ParseCrmBlock ==
  /\ codec.phase = "text"
  /\ codec' = [codec EXCEPT !.phase = "decoded",
                            !.crm = _parse_crm_block(codec.description)]
  /\ UNCHANGED <<now, appts, agents, props, contacts, events, last, oauth, run>>

NextDecode == ParseCrmBlock

SpecDecode == InitDecode /\ [][NextDecode]_vars

\* ------------------------------------------- pushes of unvalidated rows
\* upsert_event_for_appointment reads start/end through getattr and tests
\* them for None, for Appointment models whose columns admit NULL.  Here
\* the table holds 'local' appointments of such a model, with or without
\* start, end and an external event.
UnvalidatedAppts ==
  {[id |-> 0, agent |-> 1, property |-> 0, contact |-> 0, title |-> "t1",
    location |-> "", start |-> st, end |-> en, google_event_id |-> g,
    sync_state |-> "local", last_synced_at |-> NoneDT, sync_error |-> "",
    updated_at |-> Aware(0, 0)] :
     st \in {NoneDT, Aware(1, 0)}, en \in {NoneDT, Aware(2, 0)},
     g \in {NoEventId, 1}}

InitValidation ==
  /\ now = 0
  /\ \E a1, a2 \in UnvalidatedAppts :
       appts = <<[a1 EXCEPT !.id = 1], [a2 EXCEPT !.id = 2, !.google_event_id = NoEventId]>>
  /\ agents = <<AgentRow(1, "a@x", "a")>>
  /\ props = <<>>
  /\ contacts = <<>>
  /\ events = <<[id |-> 1, summary |-> "t0", description |-> <<OpenLine, CloseLine>>,
                 location |-> "", start |-> Aware(1, 0), end |-> Aware(2, 0),
                 updated |-> Aware(0, 0), origin |-> 1]>>
  /\ last = NoLast
  /\ codec = CodecOff
  /\ oauth = OAuthOff
  /\ run = RunOff

NextValidation ==
  \E limit \in 1..MaxLimit :
    \E out \in BatchOutcomes(Len(LocalBatch(appts, limit))) : Push(limit, out)

SpecValidation == InitValidation /\ [][NextValidation]_vars

\* ------------------------------------------------- the team credentials
\* A GoogleAccount row: access_token, refresh_token, token_uri, client_id
\* and client_secret are strings ("" when not stored), token_expiry a
\* datetime or None.  Credentials is the google-auth object: token is a
\* string or None, expiry a naive UTC datetime or None.
GoogleAccountRow(i, at, exp, rt, uri, cid, sec) ==
  [id |-> i, access_token |-> at, token_expiry |-> exp, refresh_token |-> rt,
   token_uri |-> uri, client_id |-> cid, client_secret |-> sec,
   updated_at |-> NoneDT]

\* the access token the token endpoint issues at time t
IssuedToken(t) ==
  CASE t = 0 -> "at-0" [] t = 1 -> "at-1" [] t = 2 -> "at-2" [] t = 3 -> "at-3"
    [] t = 4 -> "at-4" [] t = 5 -> "at-5" [] OTHER -> "at-6"

\* lifetime of an issued token (expires_in of the token response)
ExpiresIn == 3

\* the margin before expiry from which Credentials.expired is already true
RefreshThreshold == 1

\* google_calendar._expiry_db_to_creds: aware -> naive UTC
_expiry_db_to_creds(expiry_db) ==
  IF expiry_db.tag = "none" THEN NoneDT
  ELSE IF expiry_db.tag = "aware" THEN Naive(expiry_db.wall - expiry_db.off)
  ELSE expiry_db

\* google_calendar._expiry_creds_to_db: naive UTC -> aware UTC
_expiry_creds_to_db(expiry_creds) ==
  IF expiry_creds.tag = "none" THEN NoneDT
  ELSE IF expiry_creds.tag = "naive" THEN Aware(expiry_creds.wall, 0)
  ELSE expiry_creds

NoCreds ==
  [token |-> Absent, refresh_token |-> "", token_uri |-> "", client_id |-> "",
   client_secret |-> "", expiry |-> NoneDT]

\* creds.expired: false without an expiry, else now >= expiry - threshold
CredsExpired(creds, t) ==
  creds.expiry.tag # "none" /\ t >= creds.expiry.wall - RefreshThreshold

\* creds.valid: a token is held and it is not expired
CredsValid(creds, t) == creds.token # Absent /\ ~CredsExpired(creds, t)

\* google_calendar._creds_from_google_account; raised names the RuntimeError
_creds_from_google_account(ga, GOOGLE_TOKEN_URI) ==
  IF \/ ga.refresh_token = ""
     \/ ga.client_id = ""
     \/ ga.client_secret = ""
     \/ (ga.token_uri = "" /\ GOOGLE_TOKEN_URI = "")
  THEN [raised |-> "not_refreshable", creds |-> NoCreds]
  ELSE [raised |-> "",
        creds |-> [token |-> IF ga.access_token = "" THEN Absent ELSE ga.access_token,
                   refresh_token |-> ga.refresh_token,
                   token_uri |-> IF ga.token_uri # "" THEN ga.token_uri
                                 ELSE GOOGLE_TOKEN_URI,
                   client_id |-> ga.client_id,
                   client_secret |-> ga.client_secret,
                   expiry |-> _expiry_db_to_creds(ga.token_expiry)]]

\* creds.refresh(Request()) answered by resp: a new token and expiry, the
\* same with a rotated refresh token, or a RefreshError (ok = FALSE)
CredsRefresh(creds, resp, t) ==
  IF resp = "error" THEN [ok |-> FALSE, creds |-> creds]
  ELSE [ok |-> TRUE,
        creds |-> [creds EXCEPT !.token = IssuedToken(t),
                                !.expiry = Naive(t + ExpiresIn),
                                !.refresh_token = IF resp = "rotated"
                                                  THEN "rt-2" ELSE @]]

\* a save of every credential field of the object
_save_creds_to_google_account_whole(ga, creds, t) ==
  [ga EXCEPT !.access_token = IF creds.token = Absent THEN "" ELSE creds.token,
             !.token_expiry = _expiry_creds_to_db(creds.expiry),
             !.refresh_token = creds.refresh_token,
             !.token_uri = creds.token_uri,
             !.updated_at = TimezoneNow(t)]

\* google_calendar._save_creds_to_google_account:
\* save(update_fields=["access_token", "token_expiry", "updated_at"])
_save_creds_to_google_account(ga, creds, t) ==
  [ga EXCEPT !.access_token = IF creds.token = Absent THEN "" ELSE creds.token,
             !.token_expiry = _expiry_creds_to_db(creds.expiry),
             !.updated_at = TimezoneNow(t)]

\* a variant that refreshes whenever a refresh token is held
_ensure_fresh_token_always_refreshes(ga, GOOGLE_TOKEN_URI, resp, t) ==
  LET c == _creds_from_google_account(ga, GOOGLE_TOKEN_URI)
      r == CredsRefresh(c.creds, resp, t)
  IN IF c.raised # ""
     THEN [raised |-> c.raised, creds |-> NoCreds, ga |-> ga, requests |-> 0]
     ELSE IF ~r.ok
     THEN [raised |-> "refresh_error", creds |-> NoCreds, ga |-> ga, requests |-> 1]
     ELSE [raised |-> "", creds |-> r.creds,
           ga |-> _save_creds_to_google_account(ga, r.creds, t), requests |-> 1]

\* google_calendar._ensure_fresh_token: raised is "" when it returns creds,
\* else the error; ga is the row afterwards, requests the number of calls
\* made to the token endpoint
_ensure_fresh_token(ga, GOOGLE_TOKEN_URI, resp, t) ==
  LET c == _creds_from_google_account(ga, GOOGLE_TOKEN_URI)
      r == CredsRefresh(c.creds, resp, t)
  IN IF c.raised # ""
     THEN [raised |-> c.raised, creds |-> NoCreds, ga |-> ga, requests |-> 0]
     ELSE IF CredsValid(c.creds, t)
     THEN [raised |-> "", creds |-> c.creds, ga |-> ga, requests |-> 0]
     ELSE IF ~(CredsExpired(c.creds, t) /\ c.creds.refresh_token # "")
     THEN [raised |-> "invalid_not_refreshable", creds |-> NoCreds, ga |-> ga,
           requests |-> 0]
     ELSE IF ~r.ok
     THEN [raised |-> "refresh_error", creds |-> NoCreds, ga |-> ga, requests |-> 1]
     ELSE [raised |-> "", creds |-> r.creds,
           ga |-> _save_creds_to_google_account(ga, r.creds, t), requests |-> 1]

TokenResponses == {"ok", "rotated", "error"}

\* the team's credential record as an OAuth flow or an operator may have
\* left it, next to the record of another user
InitToken ==
  /\ now = 0
  /\ appts = <<>>
  /\ agents = <<>>
  /\ props = <<>>
  /\ contacts = <<>>
  /\ events = <<>>
  /\ last = NoLast
  /\ codec = CodecOff
  /\ \E at \in {"", "at-old"}, exp \in {NoneDT, Aware(0, 0), Aware(3, 0), Aware(4, 1)},
        rt \in {"", "rt-1"}, uri \in {"", "uri"}, cid \in {"", "cid"},
        sec \in {"", "sec"}, setting \in {"", "uri-s"} :
       oauth = [accounts |-> <<GoogleAccountRow(1, at, exp, rt, uri, cid, sec),
                               GoogleAccountRow(2, "at-u", NoneDT, "rt-u", "uri",
                                                "cid", "sec")>>,
                GOOGLE_TOKEN_URI |-> setting, requests |-> 0]
  /\ run = RunOff

\* _get_service_for_team / build_calendar_service: _ensure_fresh_token on
\* the team's record
EnsureFreshToken(resp) ==
  /\ now < MaxTime
  /\ Len(oauth.accounts) > 0
  /\ LET r == _ensure_fresh_token(oauth.accounts[1], oauth.GOOGLE_TOKEN_URI, resp, now)
     IN /\ oauth' = [oauth EXCEPT !.accounts[1] = r.ga, !.requests = @ + r.requests]
        /\ last' = [op |-> "token", resp |-> resp, raised |-> r.raised,
                    token |-> r.creds.token, requests |-> r.requests]
  /\ now' = now + 1
  /\ UNCHANGED <<appts, agents, props, contacts, events, codec, run>>

NextToken == \E resp \in TokenResponses : EnsureFreshToken(resp)

SpecToken == InitToken /\ [][NextToken]_vars

\* ------------------------------------ concurrent runs on the one database
\* settings.DATABASES names django.db.backends.sqlite3, on which
\* select_for_update() adds nothing to the query and the database file is
\* the unit of locking.  An import, a push and an edit of the form run at
\* the same time on one appointment and its event, statement by statement:
\* a transaction that has read holds SHARED until it ends, its first write
\* takes RESERVED (one holder at a time; refused at once to a reader when
\* another connection holds it: "database is locked"), and a COMMIT of
\* writes takes effect once no other connection holds SHARED.  New readers
\* are admitted while a commit waits, which only adds interleavings.
NoLock == [shared |-> {}, reserved |-> "none"]

CanReserve(lock, p) == lock.reserved \in {"none", p}

\* a database whose commits do not wait for the readers
CanCommit_unguarded(lock, p) == TRUE

CanCommit(lock, p) == lock.shared \subseteq {p}

\* COMMIT or ROLLBACK: the locks of the connection are dropped
Release(lock, p) ==
  [shared |-> lock.shared \ {p},
   reserved |-> IF lock.reserved = p THEN "none" ELSE lock.reserved]

\* the runs before they start; sent is the title the last successful push
\* of the appointment carried, clash records that the edit began to write
\* while the push was between its read and its write
RaceOff(sent) ==
  [phase |-> "race", lock |-> NoLock,
   imp_pc |-> "idle", imp_seen |-> <<>>, imp_evs |-> <<>>,
   imp_buf |-> ImportState(1, <<>>, <<>>, <<>>, <<>>),
   psh_pc |-> "idle", psh_seen |-> <<>>, psh_buf |-> PushState(<<>>, <<>>),
   edt_pc |-> "idle", edt_instance |-> <<>>,
   sent |-> sent, clash |-> FALSE]

\* one appointment, pushed before or not yet, and one CRM event of the
\* calendar that an outside user has written or edited
InitRace ==
  /\ now = 1
  /\ \E g \in {NoEventId, 1}, st \in {"local", "synced", "error"} :
       /\ g = NoEventId => st = "local"
       /\ appts = <<[id |-> 1, agent |-> 1, property |-> 1, contact |-> 0,
                     title |-> "t1", location |-> "", start |-> Aware(1, 0),
                     end |-> Aware(2, 0), google_event_id |-> g,
                     sync_state |-> st,
                     last_synced_at |-> IF st = "local" THEN NoneDT ELSE Aware(0, 0),
                     sync_error |-> IF st = "error" THEN PushError("api") ELSE "",
                     updated_at |-> Aware(0, 0)]>>
       /\ run = RaceOff(IF st = "synced" THEN "t1" ELSE "")
  /\ agents = <<AgentRow(1, "a@x", "a")>>
  /\ props = <<PropertyRow(1, "P1", "addr1", "P1")>>
  /\ contacts = <<>>
  /\ \E addr \in {"addr1", "addr9"}, upd \in {Aware(0, 0), Aware(9, 0)} :
       events = <<[id |-> 1, summary |-> "g2",
                   description |-> <<OpenLine, KV("agent_email", "a@x"),
                                     KV("property_code", "P1"),
                                     KV("property_address", addr), CloseLine>>,
                   location |-> "loc2", start |-> Aware(3, 0), end |-> Aware(4, 0),
                   updated |-> upd, origin |-> 0]>>
  /\ last = NoLast
  /\ codec = CodecOff
  /\ oauth = OAuthOff

\* import_agent_calendar up to line 258: the events are fetched, the
\* agent, property and contact of the block are looked up (and written
\* when they are new or differ), the appointment is read
ImportRead ==
  /\ run.imp_pc = "idle"
  /\ \E S \in {ImportLoop(ImportState(1, appts, agents, props, contacts),
                            events, 1, now)} :
       \E early \in {<<S.agents, S.props, S.contacts>> # <<agents, props, contacts>>} :
         run' = IF early /\ ~CanReserve(run.lock, "import")
                THEN [run EXCEPT !.imp_pc = "failed"]
                ELSE [run EXCEPT !.imp_pc = "read", !.imp_seen = appts,
                                 !.imp_evs = events,
                                 !.lock.shared = @ \cup {"import"},
                                 !.lock.reserved = IF early THEN "import" ELSE @]
  /\ now' = now + 1
  /\ UNCHANGED <<appts, agents, props, contacts, events, last, codec, oauth>>

\* lines 260-311: the decision on the row that was read and appt.save();
\* a run that writes nothing ends here, a refused write leaves the
\* function as an exception and the transaction is rolled back
ImportWrite ==
  /\ run.imp_pc = "read"
  /\ \E S \in {ImportLoop(ImportState(1, run.imp_seen, agents, props, contacts),
                            run.imp_evs, 1, now)} :
       \E writes \in {<<S.appts, S.agents, S.props, S.contacts>>
                         # <<run.imp_seen, agents, props, contacts>>} :
         run' = IF S.raised \/ (writes /\ ~CanReserve(run.lock, "import"))
                THEN [run EXCEPT !.imp_pc = "failed",
                                 !.lock = Release(@, "import")]
                ELSE IF ~writes
                THEN [run EXCEPT !.imp_pc = "done", !.imp_buf = S,
                                 !.lock = Release(@, "import")]
                ELSE [run EXCEPT !.imp_pc = "written", !.imp_buf = S,
                                 !.lock.reserved = "import"]
  /\ now' = now + 1
  /\ UNCHANGED <<appts, agents, props, contacts, events, last, codec, oauth>>

\* the COMMIT that ends @transaction.atomic of import_agent_calendar
ImportCommit ==
  /\ run.imp_pc = "written"
  /\ CanCommit(run.lock, "import")
  /\ appts' = run.imp_buf.appts
  /\ agents' = run.imp_buf.agents
  /\ props' = run.imp_buf.props
  /\ contacts' = run.imp_buf.contacts
  /\ run' = [run EXCEPT !.imp_pc = "done", !.lock = Release(@, "import")]
  /\ now' = now + 1
  /\ UNCHANGED <<events, last, codec, oauth>>

\* push_local_appointments, line 48: the batch is read
PushRead ==
  /\ run.psh_pc = "idle"
  /\ run' = IF LocalBatch(appts, 1) = <<>>
            THEN [run EXCEPT !.psh_pc = "done"]
            ELSE [run EXCEPT !.psh_pc = "read", !.psh_seen = appts,
                             !.lock.shared = @ \cup {"push"}]
  /\ now' = now + 1
  /\ UNCHANGED <<appts, agents, props, contacts, events, last, codec, oauth>>

\* upsert_event_for_appointment, lines 231-275: the event is composed from
\* the row that was read and sent; the external service changes at once
PushCall(out) ==
  /\ run.psh_pc = "read"
  /\ \E S \in {PushLoop(PushState(run.psh_seen, events),
                          LocalBatch(run.psh_seen, 1), 1, <<out>>, now)} :
       /\ events' = S.events
       /\ run' = [run EXCEPT !.psh_pc = "called", !.psh_buf = S,
                             !.sent = IF S.pushed = 1
                                      THEN run.psh_seen[LocalBatch(run.psh_seen, 1)[1]].title
                                      ELSE @]
  /\ now' = now + 1
  /\ UNCHANGED <<appts, agents, props, contacts, last, codec, oauth>>

\* the QuerySet.update() of _safe_update_appointment and _safe_update; when
\* it is refused, the update of the except branch is refused too and the
\* exception leaves push_local_appointments: rollback
PushWrite ==
  /\ run.psh_pc = "called"
  /\ run' = IF CanReserve(run.lock, "push")
            THEN [run EXCEPT !.psh_pc = "written", !.lock.reserved = "push"]
            ELSE [run EXCEPT !.psh_pc = "failed", !.lock = Release(@, "push")]
  /\ now' = now + 1
  /\ UNCHANGED <<appts, agents, props, contacts, events, last, codec, oauth>>

\* the COMMIT that ends @transaction.atomic of push_local_appointments:
\* the named columns of the rows of the batch change
PushCommit ==
  /\ run.psh_pc = "written"
  /\ CanCommit(run.lock, "push")
  /\ LET batch == LocalBatch(run.psh_seen, 1)
     IN appts' = [a \in 1..Len(appts) |->
                    IF a \in Range(batch)
                    THEN _safe_update(appts[a],
                           [google_event_id |-> run.psh_buf.appts[a].google_event_id,
                            last_synced_at |-> run.psh_buf.appts[a].last_synced_at,
                            sync_state |-> run.psh_buf.appts[a].sync_state,
                            sync_error |-> run.psh_buf.appts[a].sync_error])
                    ELSE appts[a]]
  /\ run' = [run EXCEPT !.psh_pc = "done", !.lock = Release(@, "push")]
  /\ now' = now + 1
  /\ UNCHANGED <<agents, props, contacts, events, last, codec, oauth>>

\* views_crm.appointment_edit: get_object_or_404 loads the instance
EditLoad ==
  /\ run.edt_pc = "idle"
  /\ run' = [run EXCEPT !.edt_pc = "loaded", !.edt_instance = <<appts[1]>>]
  /\ now' = now + 1
  /\ UNCHANGED <<appts, agents, props, contacts, events, last, codec, oauth>>

\* form.save(): the UPDATE of Model.save() begins (autocommit)
EditBegin ==
  /\ run.edt_pc = "loaded"
  /\ CanReserve(run.lock, "edit")
  /\ run' = [run EXCEPT !.edt_pc = "writing", !.lock.reserved = "edit",
                        !.clash = @ \/ run.psh_pc \in {"read", "called"}]
  /\ now' = now + 1
  /\ UNCHANGED <<appts, agents, props, contacts, events, last, codec, oauth>>

\* the UPDATE of Model.save() is committed: every column of the instance
\* is written; post_save then runs if the instance is not 'local'
EditSave(title) ==
  /\ run.edt_pc = "writing"
  /\ CanCommit(run.lock, "edit")
  /\ LET instance == [run.edt_instance[1] EXCEPT !.title = title]
     IN /\ appts' = [appts EXCEPT ![1] = ModelSave(instance, now)]
        /\ run' = [run EXCEPT !.edt_pc = IF instance.sync_state # "local"
                                         THEN "saved" ELSE "done",
                              !.lock = Release(@, "edit")]
  /\ now' = now + 1
  /\ UNCHANGED <<agents, props, contacts, events, last, codec, oauth>>

\* signals.appointment_mark_local_on_change, lines 22-30:
\* instance.save(update_fields=[sync_state, last_synced_at])
EditMarkLocal ==
  /\ run.edt_pc = "saved"
  /\ CanReserve(run.lock, "edit")
  /\ CanCommit(run.lock, "edit")
  /\ LET marked == appointment_mark_local_on_change(run.edt_instance[1], FALSE)
     IN appts' = [appts EXCEPT ![1].sync_state = marked.sync_state,
                               ![1].last_synced_at = marked.last_synced_at]
  /\ run' = [run EXCEPT !.edt_pc = "done"]
  /\ now' = now + 1
  /\ UNCHANGED <<agents, props, contacts, events, last, codec, oauth>>

\* the busy timeout of the connection passes while the write is held up:
\* OperationalError, the form's save is not done
EditTimeout ==
  /\ \/ run.edt_pc = "loaded" /\ ~CanReserve(run.lock, "edit")
     \/ run.edt_pc = "writing" /\ ~CanCommit(run.lock, "edit")
  /\ run' = [run EXCEPT !.edt_pc = "failed", !.lock = Release(@, "edit")]
  /\ now' = now + 1
  /\ UNCHANGED <<appts, agents, props, contacts, events, last, codec, oauth>>

NextRace ==
  \/ ImportRead
  \/ ImportWrite
  \/ ImportCommit
  \/ PushRead
  \/ \E out \in {"ok", "api"} : PushCall(out)
  \/ PushWrite
  \/ PushCommit
  \/ EditLoad
  \/ EditBegin
  \/ EditSave("t2")
  \/ EditMarkLocal
  \/ EditTimeout

SpecRace == InitRace /\ [][NextRace]_vars

\* --------------------------------------------- the sync runs left alone
\* Appointments and events are made and edited, pushed and imported, until
\* users and outside users stop editing (EditsStop); from then on the
\* scheduler runs push_local_appointments and import_agent_calendar in
\* turn.  The clock of that phase moves when a run writes an appointment
\* (two runs may fall in the same second) and is followed up to QuietEnd,
\* MaxQuiet ticks more than one per appointment and event: a run that would
\* need a later time is not carried out.
MaxQuiet == 2

QuietEnd == MaxTime + MaxAppts + MaxEvents + MaxQuiet

Quiet(turn) == [phase |-> "quiet", turn |-> turn]

EditsStop ==
  /\ run = RunOff
  /\ run' = Quiet("push")
  /\ UNCHANGED <<now, appts, agents, props, contacts, events, last, codec, oauth>>

\* push_local_appointments(limit=limit) at the scheduler's turn, with the
\* limit the scheduler is set up with
QuietPush(limit, out) ==
  /\ run = Quiet("push")
  /\ \E S \in {PushLoop(PushState(appts, events), LocalBatch(appts, limit), 1,
                        out, now)} :
       \E go \in {S.checked = 0 \/ now < QuietEnd} :
         /\ appts' = IF go THEN S.appts ELSE appts
         /\ events' = IF go THEN S.events ELSE events
         /\ last' = [NoLast EXCEPT !.op = "push", !.checked = S.checked,
                                   !.pushed = S.pushed, !.errors = S.errors]
         /\ now' = IF go /\ S.checked > 0 THEN now + 1 ELSE now
  /\ run' = Quiet("import")
  /\ UNCHANGED <<agents, props, contacts, codec, oauth>>

\* import_agent_calendar(agent) at the scheduler's turn; a run whose fetch
\* of the calendar fails is run again
QuietImport(order, fetch_ok) ==
  /\ run = Quiet("import")
  /\ \E r \in {import_agent_calendar(1, list_events_for_range(order),
                                     fetch_ok, now)} :
       \E go \in {r.done.appts = appts \/ now < QuietEnd} :
         /\ appts' = IF go THEN r.done.appts ELSE appts
         /\ agents' = IF go THEN r.done.agents ELSE agents
         /\ props' = IF go THEN r.done.props ELSE props
         /\ contacts' = IF go THEN r.done.contacts ELSE contacts
         /\ last' = IF r.run.raised
                    THEN [NoLast EXCEPT !.op = "import", !.raised = TRUE]
                    ELSE [NoLast EXCEPT !.op = "import",
                                        !.created = r.run.created,
                                        !.updated = r.run.updated,
                                        !.skipped = r.run.skipped]
         /\ now' = IF go /\ r.done.appts # appts THEN now + 1 ELSE now
  /\ run' = IF fetch_ok THEN Quiet("push") ELSE run
  /\ UNCHANGED <<events, codec, oauth>>

\* the listing of the calendar in the order the events were created
CreationOrder == [i \in 1..Len(events) |-> i]

\* what users and outside users do before they stop
OpenInputs(t) ==
  { [tpl |-> EvTemplates[2], updated |-> Aware(t, 0)],
    [tpl |-> EvTemplates[3], updated |-> NoneDT] }

NextQuiet ==
  \/ run = RunOff /\ AppointmentNew(1)
  \/ run = RunOff /\ \E a \in 1..MaxAppts : AppointmentEdit(a, "t2")
  \/ run = RunOff /\ \E inp \in OpenInputs(now) : ExternalCreate(inp)
  \/ run = RunOff /\ \E e \in 1..MaxEvents, inp \in OpenInputs(now) : ExternalEdit(e, inp)
  \/ run = RunOff /\ \E out \in CommandOutcomes(Len(LocalBatch(appts, MaxLimit))) :
                       Push(MaxLimit, out)
  \/ run = RunOff /\ \E order \in Orders : Import(1, order, TRUE)
  \/ EditsStop
  \/ \E out \in CommandOutcomes(Len(LocalBatch(appts, MaxLimit))) :
       QuietPush(MaxLimit, out)
  \/ \E fetch_ok \in BOOLEAN : QuietImport(CreationOrder, fetch_ok)

\* the scheduler's turn passes: the push, or the import with its fetch
\* done, is run
TurnPasses ==
  /\ run # RunOff
  /\ run' = Quiet(IF run.turn = "push" THEN "import" ELSE "push")

\* pushes and imports keep being run in turn
SpecQuiet == Init /\ [][NextQuiet]_vars /\ WF_run(TurnPasses)

\* ------------------------------------------------ pushes run repeatedly
\* Users make and edit appointments and pushes run; then the edits stop
\* and the scheduler runs the push job only, with any limit >= 1 and any
\* outcome of its external calls.
NoImportJob ==
  /\ run = Quiet("import")
  /\ run' = Quiet("push")
  /\ UNCHANGED <<now, appts, agents, props, contacts, events, last, codec, oauth>>

NextProgress ==
  \/ run = RunOff /\ AppointmentNew(1)
  \/ run = RunOff /\ \E a \in 1..MaxAppts : AppointmentEdit(a, "t2")
  \/ run = RunOff /\ \E out \in CommandOutcomes(Len(LocalBatch(appts, MaxLimit))) :
                       Push(MaxLimit, out)
  \/ EditsStop
  \/ \E limit \in 1..MaxLimit :
       \E out \in BatchOutcomes(Len(LocalBatch(appts, limit))) : QuietPush(limit, out)
  \/ NoImportJob

\* the push job keeps being run
SpecProgress == Init /\ [][NextProgress]_vars /\ WF_run(TurnPasses)

\* ------------------------------------------- the second push entry point
\* google_sync._event_body_from_appt: the title as it is, the appointment's
\* 'description' attribute (the Appointment model has none: ""), the
\* location and the times
_event_body_from_appt(appt) ==
  [summary |-> appt.title, description |-> <<>>, location |-> appt.location,
   start |-> appt.start, end |-> appt.end]

\* google_sync.upsert_appointment_to_google(appt) for the stored row a;
\* ok = FALSE when the call raises (nothing is saved then), otherwise the
\* fields are set on the instance and appt.save() stores it
upsert_appointment_to_google(S, a, out, t) ==
  LET appt == S.appts[a]
      event_id == appt.google_event_id
      body == _event_body_from_appt(appt)
      evs == IF event_id # NoEventId
             THEN EventsPatch(S.events, event_id, body, t)
             ELSE EventsInsert(S.events, body, a, t)
      new_event_id == IF event_id # NoEventId THEN event_id ELSE Len(evs)
      instance == [appt EXCEPT !.google_event_id = new_event_id,
                               !.sync_state = "synced",
                               !.last_synced_at = TimezoneNow(t),
                               !.sync_error = ""]
  IN IF out # "ok" \/ event_id > Len(S.events)
     THEN [ok |-> FALSE, S |-> S, id |-> 0]
     ELSE [ok |-> TRUE,
           S |-> [S EXCEPT !.events = evs,
                           !.appts[a] = AppointmentSave(instance, FALSE, t),
                           !.pushed = 1,
                           !.calls = Append(@, [appt |-> a, event |-> new_event_id,
                                      kind |-> IF event_id # NoEventId
                                               THEN "patch" ELSE "insert"])],
           id |-> new_event_id]

\* a caller hands appointment a to upsert_appointment_to_google
UpsertAppointmentToGoogle(a, out) ==
  /\ now < MaxTime
  /\ a \in 1..Len(appts)
  /\ \E r \in {upsert_appointment_to_google(PushState(appts, events), a, out, now)} :
       /\ Len(r.S.events) <= MaxEvents
       /\ appts' = r.S.appts
       /\ events' = r.S.events
       /\ last' = [NoLast EXCEPT !.op = "google_sync", !.batch = <<a>>,
                                 !.out = <<out>>, !.calls = r.S.calls,
                                 !.checked = 1, !.pushed = r.S.pushed,
                                 !.raised = ~r.ok]
  /\ now' = now + 1
  /\ UNCHANGED <<agents, props, contacts, codec, oauth, run>>

\* forms, both push entry points and the external calendar's users
NextSync ==
  \/ AppointmentNew(1)
  \/ \E a \in 1..MaxAppts, title \in Titles : AppointmentEdit(a, title)
  \/ \E limit \in 1..MaxLimit :
       \E out \in CommandOutcomes(Len(LocalBatch(appts, limit))) : Push(limit, out)
  \/ \E a \in 1..MaxAppts, out \in {"ok", "api"} : UpsertAppointmentToGoogle(a, out)

SpecSync == Init /\ [][NextSync]_vars

\* ------------------------------------------------------- the alert job
\* send_appointment_alerts stamps Appointment.alert_sent_at.  The column is
\* kept beside the rows, in run.alert_sent_at[id]; no other handler reads
\* or writes it.
AlertsOff == [phase |-> "alerts", alert_sent_at |-> [a \in 1..MaxAppts |-> NoneDT]]

\* _recipient_for_appointment: the agent's email, None without agent or email
_recipient_for_appointment(appt) ==
  IF appt.agent = 0 THEN "" ELSE Strip(agents[appt.agent].email)

\* the rows of the queryset of Command.handle: start in
\* [now + lead, now + lead + window), alert_sent_at NULL
AlertWindow(tbl, sent, lead, window, t) ==
  {a \in 1..Len(tbl) : /\ tbl[a].start.tag = "aware"
                        /\ tbl[a].start.wall - tbl[a].start.off >= t + lead
                        /\ tbl[a].start.wall - tbl[a].start.off < t + lead + window
                        /\ sent[a] = NoneDT}

\* .order_by("start"): the rows by start time, equal times in any order
AlertBatches(tbl, sel) ==
  {q \in [1..Cardinality(sel) -> sel] :
     /\ \A i, j \in 1..Cardinality(sel) : i # j => q[i] # q[j]
     /\ \A i, j \in 1..Cardinality(sel) :
          i < j => tbl[q[i]].start.wall - tbl[q[i]].start.off
                     <= tbl[q[j]].start.wall - tbl[q[j]].start.off}

\* the running state of one run of the command
AlertState(a, sent) ==
  [appts |-> a, alert_sent_at |-> sent, sent |-> 0, skipped |-> 0,
   raised |-> FALSE]

\* one iteration of the loop of Command.handle (lines 55-103): out = "smtp"
\* when send_mail raises; save(update_fields=["alert_sent_at"]) writes that
\* column and sends post_save
AlertOne(S, a, dry, out, t) ==
  IF _recipient_for_appointment(S.appts[a]) = ""
  THEN [S EXCEPT !.skipped = @ + 1]
  ELSE IF dry THEN S
  ELSE IF out = "smtp" THEN [S EXCEPT !.raised = TRUE]
  ELSE [S EXCEPT !.alert_sent_at[a] = TimezoneNow(t),
                 !.appts[a] = appointment_mark_local_on_change(@, FALSE),
                 !.sent = @ + 1]

RECURSIVE AlertLoop(_, _, _, _, _, _)
AlertLoop(S, batch, i, dry, out, t) ==
  IF i > Len(batch) \/ S.raised THEN S
  ELSE AlertLoop(AlertOne(S, batch[i], dry, out[i], t), batch, i + 1, dry, out, t)

\* manage.py send_appointment_alerts --lead-minutes lead --window-minutes
\* window [--dry-run]
SendAppointmentAlerts(lead, window, dry) ==
  /\ now < MaxTime
  /\ run.phase = "alerts"
  /\ \E batch \in AlertBatches(appts, AlertWindow(appts, run.alert_sent_at,
                                                   lead, window, now)) :
       \E out \in [1..Len(batch) -> {"ok", "smtp"}] :
         \E S \in {AlertLoop(AlertState(appts, run.alert_sent_at), batch, 1,
                              dry, out, now)} :
           /\ appts' = S.appts
           /\ run' = [run EXCEPT !.alert_sent_at = S.alert_sent_at]
           /\ last' = [NoLast EXCEPT !.op = "alerts", !.batch = batch,
                                     !.out = out, !.checked = Len(batch),
                                     !.pushed = S.sent, !.skipped = S.skipped,
                                     !.raised = S.raised]
  /\ now' = now + 1
  /\ UNCHANGED <<agents, props, contacts, events, codec, oauth>>

\* appointments that start soon, with and without an agent, in every
\* sync_state; a pushed one has its event in the calendar
InitAlert ==
  /\ now = 0
  /\ \E ag \in [1..MaxAppts -> {0, 1}],
        st \in [1..MaxAppts -> {"local", "synced", "error"}],
        begin \in [1..MaxAppts -> {2, 3}] :
       appts = [a \in 1..MaxAppts |->
                 [id |-> a, agent |-> ag[a], property |-> 0, contact |-> 0,
                  title |-> "t1", location |-> "", start |-> Aware(begin[a], 0),
                  end |-> Aware(begin[a] + 1, 0),
                  google_event_id |-> IF st[a] = "synced" THEN a ELSE NoEventId,
                  sync_state |-> st[a],
                  last_synced_at |-> IF st[a] = "local" THEN NoneDT ELSE Aware(0, 0),
                  sync_error |-> IF st[a] = "error" THEN PushError("api") ELSE "",
                  updated_at |-> Aware(0, 0)]]
  /\ agents = <<AgentRow(1, "a@x", "a")>>
  /\ props = <<>>
  /\ contacts = <<>>
  /\ events = [e \in 1..MaxEvents |->
                [id |-> e, summary |-> "t1", description |-> <<OpenLine, CloseLine>>,
                 location |-> "", start |-> Aware(2, 0), end |-> Aware(3, 0),
                 updated |-> Aware(0, 0), origin |-> e]]
  /\ last = NoLast
  /\ codec = CodecOff
  /\ oauth = OAuthOff
  /\ run = AlertsOff

NextAlert ==
  \/ \E lead \in {1, 2}, window \in {1, 2}, dry \in BOOLEAN :
       SendAppointmentAlerts(lead, window, dry)
  \/ \E limit \in 1..MaxLimit :
       \E out \in CommandOutcomes(Len(LocalBatch(appts, limit))) : Push(limit, out)

SpecAlert == InitAlert /\ [][NextAlert]_vars

\* ------------------------------------------------- the resolver's inputs
\* _should_take_google and the import around it, on every kind of 'updated'
\* value an event can carry and on appointments with and without an
\* updated_at: one appointment joined to one external event.
ResolverUpdated ==
  {NoneDT, BadDT, DateOnly(3), Aware(1, 0), Aware(3, 0), Aware(3, 1), Naive(3)}

InitResolver ==
  /\ now = 2
  /\ \E st \in {"local", "synced", "error"}, upd_at \in {NoneDT, Aware(2, 0)} :
       appts = <<[id |-> 1, agent |-> 1, property |-> 0, contact |-> 0,
                  title |-> "t1", location |-> "", start |-> Aware(1, 0),
                  end |-> Aware(2, 0), google_event_id |-> 1,
                  sync_state |-> st,
                  last_synced_at |-> IF st = "local" THEN NoneDT ELSE Aware(1, 0),
                  sync_error |-> IF st = "error" THEN PushError("api") ELSE "",
                  updated_at |-> upd_at]>>
  /\ agents = <<AgentRow(1, "a@x", "a")>>
  /\ props = <<>>
  /\ contacts = <<>>
  /\ \E upd \in ResolverUpdated :
       events = <<[id |-> 1, summary |-> EvTemplates[2].summary,
                   description |-> EvTemplates[2].description,
                   location |-> EvTemplates[2].location,
                   start |-> EvTemplates[2].start, end |-> EvTemplates[2].end,
                   updated |-> upd, origin |-> 1]>>
  /\ last = NoLast
  /\ codec = CodecOff
  /\ oauth = OAuthOff
  /\ run = RunOff

NextResolver ==
  \/ \E agent \in 1..(MaxEvents + 1), order \in Orders, fetch_ok \in BOOLEAN :
       Import(agent, order, fetch_ok)
  \/ \E title \in Titles : AppointmentEdit(1, title)
  \/ \E inp \in ExtInputs(now) : ExternalEdit(1, inp)
  \/ \E limit \in 1..MaxLimit :
       \E out \in CommandOutcomes(Len(LocalBatch(appts, limit))) : Push(limit, out)

SpecResolver == InitResolver /\ [][NextResolver]_vars


\* =================================================================== claims
\* the step just taken ran the operation op
Did(op) == now' # now /\ last'.op = op

\* the UTC instant of a timestamp with an offset
UtcInstant(dt) == dt.wall - dt.off

HasInstant(dt) == dt.tag \in {"aware", "naive", "date"}

\* the entries of the last import's log about event e
DecisionsFor(l, e) == {i \in 1..Len(l.decisions) : l.decisions[i].ev = e}

\* C1 (local wins): an import changes no field of an appointment that was
\* 'local' when it started, and the event whose id is that appointment's
\* google_event_id is counted as skipped, never as updated or created,
\* whatever the event's 'updated' value.
C1_LocalWins ==
  [][Did("import") =>
       \A a \in 1..Len(appts) :
         appts[a].sync_state = "local" =>
           /\ appts'[a] = appts[a]
           /\ \A i \in DecisionsFor(last', appts[a].google_event_id) :
                last'.decisions[i].res = "skipped"
           /\ (/\ ~last'.raised
               /\ appts[a].google_event_id \in 1..Len(events))
              => DecisionsFor(last', appts[a].google_event_id) # {}]_vars

\* a 'local' appointment met an importable event that is newer than it
C1_Witness ==
  /\ last.op = "import"
  /\ \E i \in 1..Len(last.decisions) :
       LET d == last.decisions[i] IN
       /\ d.why = "local_wins"
       /\ HasInstant(events[d.ev].updated)
       /\ UtcInstant(events[d.ev].updated) > UtcInstant(appts[d.appt].updated_at)

\* C2 (trigger suppression): every appointment the last import created or
\* overwrote is 'synced' with last_synced_at set once the save has completed.
C2_TriggerSuppression ==
  last.op = "import" =>
    \A i \in 1..Len(last.decisions) :
      last.decisions[i].res \in {"created", "updated"} =>
        /\ appts[last.decisions[i].appt].sync_state = "synced"
        /\ appts[last.decisions[i].appt].last_synced_at.tag # "none"

\* the external events that were inserted for appointment a
InsertedFor(a) == {e \in 1..Len(events) : events[e].origin = a}

Importable(ev) ==
  /\ Find(ev.description, "open") # 0
  /\ Find(ev.description, "close") > Find(ev.description, "open")
  /\ \E i \in 1..Len(ev.description) :
       /\ Find(ev.description, "open") < i
       /\ i < Find(ev.description, "close")
       /\ ev.description[i].kind = "kv"
       /\ ev.description[i].k = "agent_email"
       /\ ev.description[i].v # ""
  /\ HasInstant(ev.start)
  /\ HasInstant(ev.end)

\* C4 (conflict tie-break): in an import that returns, an importable event
\* that matches a 'synced' or 'error' appointment, both timestamps being
\* available, overwrites it if and only if the event's UTC instant is
\* strictly later than the appointment's; otherwise the appointment is
\* unchanged and the event is counted as skipped.
C4_TieBreak ==
  [][(Did("import") /\ ~last'.raised) =>
       \A e \in 1..Len(events), a \in 1..Len(appts) :
         (/\ Importable(events[e])
          /\ appts[a].google_event_id = e
          /\ appts[a].sync_state \in {"synced", "error"}
          /\ HasInstant(events[e].updated)
          /\ HasInstant(appts[a].updated_at))
         => IF UtcInstant(events[e].updated) > UtcInstant(appts[a].updated_at)
            THEN /\ \E i \in DecisionsFor(last', e) :
                      last'.decisions[i] = Decision(e, "updated", "", a)
                 /\ appts'[a].title = TitleOf(events[e])
                 /\ appts'[a].start = parse_iso(events[e].start)
                 /\ appts'[a].updated_at = TimezoneNow(now)
            ELSE /\ \E i \in DecisionsFor(last', e) :
                      last'.decisions[i] = Decision(e, "skipped", "not_newer", a)
                 /\ appts'[a] = appts[a]]_vars

\* the tie: an import met a 'synced' or 'error' appointment and an event
\* with the same UTC instant, written with a +01:00 offset
C4_Witness ==
  /\ last.op = "import"
  /\ \E i \in 1..Len(last.decisions) :
       LET d == last.decisions[i] IN
       /\ d.why = "not_newer"
       /\ events[d.ev].updated.tag = "aware"
       /\ events[d.ev].updated.off = 1
       /\ UtcInstant(events[d.ev].updated) = UtcInstant(appts[d.appt].updated_at)

\* a supplied value as the decoder should report it: absent when empty
Supplied(row, present, value) ==
  IF row.id = 0 \/ ~present THEN Absent ELSE value

\* C5 (round-trip metadata): decoding the description the push encoder
\* produced gives back the agent email, the property code and address and
\* the contact name, email and phone as supplied, and absent for the fields
\* that were absent.
C5_RoundTrip ==
  codec.phase = "decoded" =>
    LET a == codec.agent
        p == codec.property
        c == codec.contact
    IN /\ codec.crm.agent_email = Supplied(a, a.id # 0 /\ a.email # "", a.email)
       /\ codec.crm.property_code = Supplied(p, p.id # 0 /\ p.code # "", p.code)
       /\ codec.crm.property_address = Supplied(p, p.id # 0 /\ p.address # "", p.address)
       /\ codec.crm.contact_name = Supplied(c, c.id # 0 /\ c.full_name # "", c.full_name)
       /\ codec.crm.contact_email = Supplied(c, c.id # 0 /\ c.email # "", c.email)
       /\ codec.crm.contact_phone = Supplied(c, c.id # 0 /\ c.phone # "", c.phone)

\* C6 (per-item failure isolation): in push_local_appointments, every
\* appointment of the batch whose push fails ends 'error' with the failure
\* message in sync_error and last_synced_at set, errors counts exactly the
\* failures, and every appointment after it in the batch is still processed;
\* the call returns its counts.
C6_FailureIsolation ==
  [][Did("push") =>
       LET l == last'
           failed == {i \in 1..Len(l.batch) : l.out[i] # "ok"}
       IN /\ l.errors = Cardinality(failed)
          /\ l.checked = Len(l.batch)
          /\ \A i \in failed :
               /\ appts'[l.batch[i]].sync_state = "error"
               /\ appts'[l.batch[i]].sync_error # ""
               /\ appts'[l.batch[i]].sync_error = PushError(l.out[i])
               /\ appts'[l.batch[i]].last_synced_at = TimezoneNow(now)
               /\ \A j \in (i + 1)..Len(l.batch) :
                    /\ appts'[l.batch[j]].sync_state # "local"
                    /\ appts'[l.batch[j]].last_synced_at = TimezoneNow(now)
                    /\ l.out[j] = "ok" => appts'[l.batch[j]].sync_state = "synced"]_vars

\* a batch of two whose first push failed and whose second succeeded
C6_Witness ==
  /\ last.op = "push"
  /\ Len(last.batch) = 2
  /\ last.out[1] # "ok"
  /\ last.out[2] = "ok"
  /\ last.errors = 1
  /\ last.pushed = 1
  /\ appts[last.batch[1]].sync_state = "error"
  /\ appts[last.batch[2]].sync_state = "synced"

\* C7 (push success post-state): in push_local_appointments, an appointment
\* whose external call succeeds ends 'synced' with sync_error empty,
\* last_synced_at set and google_event_id the id of its event; one without an
\* id got a new event, one with an id had that event patched; its other
\* fields are as before.
C7_PushSuccess ==
  [][Did("push") =>
       \A i \in 1..Len(last'.batch) :
         last'.out[i] = "ok" =>
           LET a == last'.batch[i]
               gid == appts'[a].google_event_id
           IN /\ appts'[a] = [appts[a] EXCEPT !.sync_state = "synced",
                                              !.sync_error = "",
                                              !.last_synced_at = TimezoneNow(now),
                                              !.google_event_id = gid]
              /\ gid \in 1..Len(events')
              /\ events'[gid].summary = appts[a].title
              /\ events'[gid].start = appts[a].start
              /\ events'[gid].updated = TimezoneNow(now)
              /\ IF appts[a].google_event_id = NoEventId
                 THEN gid > Len(events) /\ events'[gid].origin = a
                 ELSE gid = appts[a].google_event_id
                      /\ events'[gid].origin = events[gid].origin]_vars

\* push_local_appointments has just created the event of an appointment
\* that had none
C7_Witness ==
  /\ last.op = "push"
  /\ \E i \in 1..Len(last.calls) :
       /\ last.calls[i].kind = "insert"
       /\ appts[last.calls[i].appt].sync_state = "synced"
       /\ appts[last.calls[i].appt].google_event_id = last.calls[i].event
       /\ appts[last.calls[i].appt].sync_error = ""

\* C8 (bounded, ordered batch): with k 'local' appointments, a push with
\* limit N processes the min(N, k) of them with the lowest ids, in ascending
\* order, returns checked = min(N, k) <= N, and neither calls the external
\* service for nor writes any other appointment.
C8_BoundedBatch ==
  [][(Did("push") \/ Did("google_push")) =>
       LET loc == {a \in 1..Len(appts) : appts[a].sync_state = "local"}
           b == last'.batch
           done == {b[i] : i \in 1..Len(b)}
       IN /\ Len(b) = Min(last'.limit, Cardinality(loc))
          /\ last'.checked = Len(b)
          /\ last'.checked <= last'.limit
          /\ done \subseteq loc
          /\ \A i, j \in 1..Len(b) : i < j => b[i] < b[j]
          /\ \A a \in loc \ done : \A d \in done : d < a
          /\ Len(appts') = Len(appts)
          /\ \A a \in (1..Len(appts)) \ done : appts'[a] = appts[a]
          /\ \A i \in 1..Len(last'.calls) : last'.calls[i].appt \in done
          /\ \A e \in 1..Len(events) :
               (\A d \in done : appts[d].google_event_id # e) => events'[e] = events[e]
          /\ \A e \in (Len(events) + 1)..Len(events') : events'[e].origin \in done]_vars

\* a push with limit 1 left a second eligible appointment for a later run
C8_Witness ==
  /\ last.op \in {"push", "google_push"}
  /\ last.limit = 1
  /\ last.checked = 1
  /\ \E a \in 1..Len(appts) :
       /\ a > last.batch[1]
       /\ appts[a].sync_state = "local"
       /\ appts[a].last_synced_at = NoneDT

\* C9 (all-or-nothing import): an import that an exception leaves changes
\* no Appointment, Agent, Property or Contact row.
C9_AllOrNothing ==
  [][(Did("import") /\ last'.raised) => stores' = stores]_vars

\* an import had created or overwritten appointments for earlier events
\* when the exception left it
C9_Witness ==
  /\ last.op = "import"
  /\ last.raised
  /\ last.partial > 0

ImportOutcome(r) ==
  [appts |-> r.done.appts, agents |-> r.done.agents, props |-> r.done.props,
   contacts |-> r.done.contacts, raised |-> r.run.raised,
   created |-> r.run.created, updated |-> r.run.updated, skipped |-> r.run.skipped]

\* the agent_email of the event's block as the decoder reports it
BlockAgentEmail(ev) == _parse_crm_block(ev.description).agent_email

\* two imports of the same event list called with different 'agent'
\* arguments leave the same tables and the same created/updated/skipped
\* counts
ArgumentIgnored ==
  \A order \in Orders, fetch_ok \in BOOLEAN :
    \A ag1, ag2 \in 1..Len(agents) :
      ImportOutcome(import_agent_calendar(ag1, list_events_for_range(order),
                                          fetch_ok, now))
        = ImportOutcome(import_agent_calendar(ag2, list_events_for_range(order),
                                              fetch_ok, now))

\* every appointment an import creates or overwrites has the agent whose
\* email is the agent_email of the event's block, and an importable event
\* that matches no appointment is counted as created, not updated
OwnerIsBlockAgent ==
  [][(Did("import") /\ ~last'.raised) =>
       /\ \A i \in 1..Len(last'.decisions) :
            LET d == last'.decisions[i] IN
            d.res \in {"created", "updated"} =>
              /\ appts'[d.appt].agent \in 1..Len(agents')
              /\ agents'[appts'[d.appt].agent].email = BlockAgentEmail(events[d.ev])
              /\ appts'[d.appt].google_event_id = d.ev
       /\ \A e \in 1..Len(events) :
            (Importable(events[e])
               /\ \A a \in 1..Len(appts) : appts[a].google_event_id # e)
              => \E i \in 1..Len(last'.decisions) :
                   /\ last'.decisions[i].ev = e
                   /\ last'.decisions[i].res = "created"
                   /\ last'.decisions[i].appt > Len(appts)]_vars

\* C11 (owner from metadata): every appointment created or overwritten by
\* an import gets the agent of the block's agent_email, never the 'agent'
\* argument; imports of the same events with different arguments leave
\* identical tables and counts; an importable event without a matching
\* appointment is counted as created.
C11_OwnerFromMetadata == []ArgumentIgnored /\ OwnerIsBlockAgent

\* an import called for one agent has created an appointment owned by
\* another agent, the one named in the event's block
C11_Witness ==
  /\ last.op = "import"
  /\ ~last.raised
  /\ Len(agents) > 1
  /\ \E i \in 1..Len(last.decisions) :
       /\ last.decisions[i].res = "created"
       /\ appts[last.decisions[i].appt].agent # last.agent
       /\ agents[appts[last.decisions[i].appt].agent].email
            = BlockAgentEmail(events[last.decisions[i].ev])

\* C12 (configuration errors abort the operation): a push run that finds
\* the calendar id, the team account email or the team credential record
\* missing stops with an error for the caller: it records no per-appointment
\* sync error and processes no further appointment.
C12_ConfigAborts ==
  [][(Did("push") /\ Len(last'.batch) > 0 /\ last'.out[1] \in ConfigErrors) =>
       /\ last'.raised
       /\ last'.errors = 0
       /\ last'.checked <= 1
       /\ appts' = appts]_vars

\* an event that is not CRM-managed: a marker is missing from its
\* description, or its block has no agent_email
NonCrm(ev) ==
  \/ Find(ev.description, "open") = 0
  \/ Find(ev.description, "close") = 0
  \/ OrEmpty(BlockAgentEmail(ev)) = ""

IsCrm(ev) == ~NonCrm(ev)

\* an import of the events with the non-CRM ones taken out leaves the same
\* tables and the same created/updated counts, and skips exactly that many
\* events fewer
NonCrmInert ==
  \A order \in Orders, ag \in 1..Len(agents) :
    LET evs == list_events_for_range(order)
        full == ImportOutcome(import_agent_calendar(ag, evs, TRUE, now))
        crm == ImportOutcome(import_agent_calendar(ag, SelectSeq(evs, IsCrm), TRUE, now))
    IN /\ [full EXCEPT !.skipped = 0] = [crm EXCEPT !.skipped = 0]
       /\ ~full.raised =>
            full.skipped = crm.skipped + Len(evs) - Len(SelectSeq(evs, IsCrm))

\* a returning import logs every non-CRM event as skipped without touching
\* a row, and logs a decision for every event of the list
NonCrmSkipped ==
  [][(Did("import") /\ ~last'.raised) =>
       \A e \in 1..Len(events) :
         /\ Cardinality(DecisionsFor(last', e)) = 1
         /\ NonCrm(events[e]) =>
              \A i \in DecisionsFor(last', e) :
                /\ last'.decisions[i].res = "skipped"
                /\ last'.decisions[i].why \in {"no_block", "no_agent"}
                /\ last'.decisions[i].appt = 0
                /\ \A a \in 1..Len(appts') : appts'[a].google_event_id = e =>
                     (a <= Len(appts) /\ appts'[a] = appts[a])]_vars

\* C13 (non-CRM events are inert): an event without the open or the close
\* marker, or whose block has no agent_email, is counted as skipped, no
\* Appointment, Agent, Property or Contact is created or changed because of
\* it, and the import goes on with the next event.
C13_NonCrmInert == []NonCrmInert /\ NonCrmSkipped

\* an import skipped an event whose block names no agent, changed nothing
\* for it, and then created an appointment for the next event
C13_Witness ==
  /\ last.op = "import"
  /\ ~last.raised
  /\ \E i, j \in 1..Len(last.decisions) :
       /\ i < j
       /\ last.decisions[i].why = "no_agent"
       /\ NonCrm(events[last.decisions[i].ev])
       /\ last.decisions[j].res = "created"
       /\ last.skipped = 1

\* C14 (validation before upstream): for an appointment without start or
\* end no external insert or patch is issued and no event is created or
\* modified; in push_local_appointments it ends 'error' with the message
\* recorded and its google_event_id unchanged.
C14_ValidationFirst ==
  [][Did("push") =>
       \A i \in 1..Len(last'.batch) :
         LET a == last'.batch[i] IN
         (appts[a].start = NoneDT \/ appts[a].end = NoneDT) =>
           /\ \A c \in 1..Len(last'.calls) : last'.calls[c].appt # a
           /\ \A e \in 1..Len(events') : e > Len(events) => events'[e].origin # a
           /\ appts[a].google_event_id # NoEventId =>
                events'[appts[a].google_event_id] = events[appts[a].google_event_id]
           /\ appts'[a].sync_state = "error"
           /\ appts'[a].sync_error # ""
           /\ last'.out[i] \in {"ok", "api"} => appts'[a].sync_error = PushError("time")
           /\ appts'[a].google_event_id = appts[a].google_event_id]_vars

\* a push whose calls would have succeeded left an appointment without end,
\* joined to an event, in 'error' and the event as it was, and sent the
\* other appointment of the batch
C14_Witness ==
  /\ last.op = "push"
  /\ Len(last.batch) = 2
  /\ last.out = <<"ok", "ok">>
  /\ appts[1].end = NoneDT
  /\ appts[1].google_event_id = 1
  /\ appts[1].sync_state = "error"
  /\ appts[1].sync_error = PushError("time")
  /\ events[1].summary = "t0"
  /\ appts[2].sync_state = "synced"

\* the team's record holds a refresh token, a client id, a client secret
\* and a token endpoint (its own or the configured one)
HasAllFour(ga) ==
  /\ ga.refresh_token # ""
  /\ ga.client_id # ""
  /\ ga.client_secret # ""
  /\ (ga.token_uri # "" \/ oauth.GOOGLE_TOKEN_URI # "")

\* the stored token counts as expired at time t, as the credentials object
\* judges it: an expiry is stored and t has reached it, less the threshold
StoredExpired(ga, t) ==
  /\ ga.token_expiry # NoneDT
  /\ t >= UtcInstant(ga.token_expiry) - RefreshThreshold

\* C15 (refresh persists in place): with an expired stored token and all
\* four refresh fields present, exactly one refresh request is made; on
\* success the record holds the new access token and expiry, its refresh
\* token, token endpoint, client id and client secret are unchanged and no
\* record is created or deleted; on failure the record is unchanged.
C15_RefreshInPlace ==
  [][(Did("token") /\ HasAllFour(oauth.accounts[1])
        /\ StoredExpired(oauth.accounts[1], now)) =>
       LET ga == oauth.accounts[1]
           after == oauth'.accounts[1]
       IN /\ last'.requests = 1
          /\ oauth'.requests = oauth.requests + 1
          /\ Len(oauth'.accounts) = Len(oauth.accounts)
          /\ oauth'.accounts[2] = oauth.accounts[2]
          /\ IF last'.resp = "error"
             THEN after = ga /\ last'.raised = "refresh_error"
             ELSE /\ last'.raised = ""
                  /\ after.access_token = IssuedToken(now)
                  /\ after.token_expiry = Aware(now + ExpiresIn, 0)
                  /\ last'.token = after.access_token
                  /\ after.refresh_token = ga.refresh_token
                  /\ after.token_uri = ga.token_uri
                  /\ after.client_id = ga.client_id
                  /\ after.client_secret = ga.client_secret
                  /\ after.id = ga.id]_vars

\* a refresh whose response rotated the refresh token, for a record without
\* a token endpoint of its own: the new access token is stored, the refresh
\* token and the empty endpoint are as before
C15_Witness ==
  /\ last.op = "token"
  /\ last.resp = "rotated"
  /\ last.raised = ""
  /\ last.requests = 1
  /\ oauth.accounts[1].access_token = IssuedToken(now - 1)
  /\ oauth.accounts[1].refresh_token = "rt-1"
  /\ oauth.accounts[1].token_uri = ""

\* C16 (credentials or a typed failure): _ensure_fresh_token fails as
\* not-refreshable whenever one of the four refresh fields is missing, and
\* with all four present it never fails as not-refreshable: it returns the
\* stored token when valid and otherwise refreshes, also when the stored
\* access token is empty or the stored expiry is absent.
C16_TypedFailure ==
  [][Did("token") =>
       LET ga == oauth.accounts[1]
           valid == ga.access_token # "" /\ ~StoredExpired(ga, now)
       IN IF ~HasAllFour(ga)
          THEN last'.raised \in {"not_refreshable", "invalid_not_refreshable"}
          ELSE /\ last'.raised \notin {"not_refreshable", "invalid_not_refreshable"}
               /\ valid => (last'.token = ga.access_token /\ last'.requests = 0)
               /\ ~valid => last'.requests = 1]_vars

\* C17 (valid token fast path): with a stored access token that is not
\* expired and a refreshable record, _ensure_fresh_token returns exactly
\* the stored token, calls the token endpoint not at all and writes nothing
\* to the credential record.
C17_FastPath ==
  [][(Did("token") /\ HasAllFour(oauth.accounts[1])
        /\ oauth.accounts[1].access_token # ""
        /\ ~StoredExpired(oauth.accounts[1], now)) =>
       /\ last'.raised = ""
       /\ last'.token = oauth.accounts[1].access_token
       /\ last'.requests = 0
       /\ oauth' = oauth]_vars

\* a token issued by an earlier refresh was returned as it is stored,
\* without a further request
C17_Witness ==
  /\ last.op = "token"
  /\ last.raised = ""
  /\ last.requests = 0
  /\ oauth.requests = 1
  /\ last.token = oauth.accounts[1].access_token
  /\ last.token = IssuedToken(now - 2)

\* C18 -- import against a concurrent push or edit of one appointment: the
\* import's commit changes a row only if that row is still exactly the row
\* the import read (no write of another run took effect in between), and
\* the persisted sync_state of a row it overwrites is not 'local'.
C18_LockedRead ==
  [][(run.imp_pc = "written" /\ run'.imp_pc = "done") =>
       \A a \in 1..Len(appts) :
         appts'[a] # appts[a] =>
           /\ appts[a] = run.imp_seen[a]
           /\ appts[a].sync_state # "local"]_vars

\* an import has overwritten the appointment from the event while an edit
\* of the form, loaded before the overwrite, was held up and gave up
C18_Witness ==
  /\ run.imp_pc = "done"
  /\ run.imp_buf.updated = 1
  /\ run.psh_pc = "idle"
  /\ run.edt_pc = "failed"
  /\ run.edt_instance[1].title = "t1"
  /\ appts[1].title = "g2"

Quiescent ==
  /\ LocalBatch(appts, 1) = <<>>
  /\ \A order \in Orders :
       \E S \in {ImportLoop(ImportState(1, appts, agents, props, contacts),
                            list_events_for_range(order), 1, now)} :
         S.raised \/ (S.created = 0 /\ S.updated = 0)

\* C20 -- quiescence: once users and outside users stop editing, the
\* pushes and imports that keep running reach a state from which on every
\* push finds nothing to send and every import creates and updates nothing.
C20_Quiescence == (run # RunOff) ~> []Quiescent

\* the edits have stopped, an event an outside user wrote was imported, the
\* appointment made for it was pushed back, and nothing is left to do
C20_Witness ==
  /\ run # RunOff
  /\ Quiescent
  /\ last.op = "import"
  /\ last.skipped > 0
  /\ \E a \in 1..Len(appts) :
       /\ appts[a].sync_state = "synced"
       /\ appts[a].google_event_id \in 1..Len(events)
       /\ events[appts[a].google_event_id].origin = 0
       /\ events[appts[a].google_event_id].summary = appts[a].title
       /\ events[appts[a].google_event_id].updated = Aware(now - 1, 0)

\* ---------------------------------------------------------------------
\* C21  Change-tracking trigger effect: a form save of an appointment whose
\* sync_state is 'synced' or 'error' leaves the row as Model.save() wrote it
\* except for sync_state = 'local' and last_synced_at = None
\* (google_event_id, sync_error and every other column keep the saved
\* values), the receiver saving once; for a 'local' appointment the row is
\* what Model.save() wrote and the receiver saves nothing.
C21_TriggerEffect ==
  [][last'.op = "edit" =>
       \A a \in 1..Len(appts) : appts'[a] # appts[a] =>
         \E saved \in {ModelSave([appts[a] EXCEPT !.title = appts'[a].title], now)} :
           IF appts[a].sync_state \in {"synced", "error"}
           THEN /\ appts'[a] = [saved EXCEPT !.sync_state = "local",
                                             !.last_synced_at = NoneDT]
                /\ appts'[a].google_event_id = appts[a].google_event_id
                /\ appts'[a].sync_error = appts[a].sync_error
                /\ NestedSaves(saved) = 1
           ELSE /\ appts'[a] = saved
                /\ NestedSaves(saved) = 0]_vars

\* an edit has just turned an appointment whose push had failed back to
\* 'local', its error message still in place
C21_Witness ==
  /\ last.op = "edit"
  /\ \E a \in 1..Len(appts) :
       /\ appts[a].sync_state = "local"
       /\ appts[a].sync_error # ""
       /\ appts[a].last_synced_at = NoneDT
       /\ appts[a].updated_at = TimezoneNow(now - 1)

\* ---------------------------------------------------------------------
\* the cases in which the resolver must prefer the local appointment
Conservative(ev, appt) ==
  \/ appt.sync_state = "local"
  \/ ev.updated.tag \in {"none", "bad"}
  \/ appt.updated_at.tag = "none"

\* C22  Conservative resolver: for an appointment that is 'local', or has no
\* updated_at, or whose event has a missing or unparsable 'updated',
\* _should_take_google is false whatever the other values are, and an
\* import that returns leaves the appointment unchanged and counts its
\* event as skipped.
C22_ConservativeResolver ==
  [][\A e \in 1..Len(events), a \in 1..Len(appts) :
       (appts[a].google_event_id = e /\ Conservative(events[e], appts[a])) =>
          /\ ~_should_take_google(events[e], appts[a])
          /\ (Did("import") /\ ~last'.raised) =>
                /\ appts'[a] = appts[a]
                /\ DecisionsFor(last', e) # {}
                /\ \A i \in DecisionsFor(last', e) :
                     last'.decisions[i].res = "skipped"]_vars

\* an import met an 'error' appointment without updated_at whose event
\* carries a timestamp, and skipped it as not newer
C22_Witness ==
  /\ last.op = "import"
  /\ last.decisions = <<Decision(1, "skipped", "not_newer", 1)>>
  /\ appts[1].sync_state = "error"
  /\ appts[1].updated_at = NoneDT
  /\ events[1].updated = Aware(3, 0)

\* ---------------------------------------------------------------------
\* C23  Skipped events write nothing: an import that returns having counted
\* every event as skipped (no block, no agent, start or end missing, local
\* wins, external not newer) leaves the Property and Contact tables exactly
\* as they were, so that a repeated import over an unchanged event list
\* changes no local table.
C23_SkippedWriteNothing ==
  [][(/\ Did("import")
      /\ ~last'.raised
      /\ \A i \in 1..Len(last'.decisions) : last'.decisions[i].res = "skipped")
     => (props' = props /\ contacts' = contacts)]_vars

\* ---------------------------------------------------------------------
\* C24  Both push entry points end in 'synced': when
\* upsert_appointment_to_google has returned for an appointment, the stored
\* row has sync_state = 'synced', a last_synced_at and an empty sync_error,
\* as after upsert_event_for_appointment; its save() does not turn the row
\* back to 'local'.
C24_BothEndSynced ==
  [][(Did("google_sync") /\ ~last'.raised) =>
       \A a \in 1..Len(appts) : last'.batch = <<a>> =>
          /\ appts'[a].sync_state = "synced"
          /\ appts'[a].last_synced_at # NoneDT
          /\ appts'[a].sync_error = ""]_vars

\* ---------------------------------------------------------------------
\* C25  Non-content writes do not dirty an appointment: when the alert job
\* records alert_sent_at on an appointment whose sync_state is 'synced',
\* the appointment's sync_state and last_synced_at are the same afterwards
\* and the next push does not select it.
C25_AlertKeepsSynced ==
  [][Did("alerts") =>
       \A a \in 1..Len(appts) :
         (/\ appts[a].sync_state = "synced"
          /\ run'.alert_sent_at[a] # run.alert_sent_at[a]) =>
            /\ appts'[a].sync_state = appts[a].sync_state
            /\ appts'[a].last_synced_at = appts[a].last_synced_at
            /\ \A i \in 1..Len(LocalBatch(appts', MaxAppts)) :
                 LocalBatch(appts', MaxAppts)[i] # a]_vars

\* ---------------------------------------------------------------------
\* C26  State/field consistency: in every reachable state each appointment's
\* sync_state is 'local', 'synced' or 'error'; a 'synced' appointment has
\* an empty sync_error and a non-empty google_event_id; a 'local'
\* appointment has no last_synced_at.
C26_FieldConsistency ==
  \A a \in 1..Len(appts) :
    /\ appts[a].sync_state \in {"local", "synced", "error"}
    /\ appts[a].sync_state = "synced" =>
         (appts[a].sync_error = "" /\ appts[a].google_event_id # NoEventId)
    /\ appts[a].sync_state = "local" => appts[a].last_synced_at = NoneDT

\* an edit has returned a failed appointment to 'local' (its message still
\* stored) while another appointment is 'synced'
C26_Witness ==
  /\ last.op = "edit"
  /\ \E a, b \in 1..Len(appts) :
       /\ appts[a].sync_state = "local"
       /\ appts[a].sync_error # ""
       /\ appts[b].sync_state = "synced"
       /\ appts[b].last_synced_at # NoneDT

\* ---------------------------------------------------------------------
\* C27  Errors are sticky: an appointment in sync_state 'error' is not
\* selected by a push run, no external call is made for it and the run
\* leaves it unchanged; it leaves 'error' only through a form save, which
\* makes it 'local', or through an import that overwrites it, which makes
\* it 'synced'.
C27_StickyErrors ==
  [][\A a \in 1..Len(appts) : appts[a].sync_state = "error" =>
       /\ (Did("push") \/ Did("google_push")) =>
            /\ \A i \in 1..Len(last'.batch) : last'.batch[i] # a
            /\ \A i \in 1..Len(last'.calls) : last'.calls[i].appt # a
            /\ appts'[a] = appts[a]
       /\ appts'[a].sync_state # "error" =>
            \/ Did("edit") /\ appts'[a].sync_state = "local"
            \/ /\ Did("import")
               /\ \E i \in 1..Len(last'.decisions) :
                    last'.decisions[i].res = "updated" /\ last'.decisions[i].appt = a
               /\ appts'[a].sync_state = "synced"]_vars

\* the same with the state an overwritten appointment is in fact left in
StickyErrorsAsCoded ==
  [][\A a \in 1..Len(appts) : appts[a].sync_state = "error" =>
       /\ (Did("push") \/ Did("google_push")) =>
            /\ \A i \in 1..Len(last'.batch) : last'.batch[i] # a
            /\ \A i \in 1..Len(last'.calls) : last'.calls[i].appt # a
            /\ appts'[a] = appts[a]
       /\ appts'[a].sync_state # "error" =>
            \/ Did("edit") /\ appts'[a].sync_state = "local"
            \/ /\ Did("import")
               /\ \E i \in 1..Len(last'.decisions) :
                    last'.decisions[i].res = "updated" /\ last'.decisions[i].appt = a
               /\ appts'[a].sync_state = "local"]_vars

\* ---------------------------------------------------------------------
NoLocal == \A a \in 1..Len(appts) : appts[a].sync_state # "local"

\* C28  Push makes progress: once the edits have stopped and
\* push_local_appointments is run again and again with a limit >= 1, every
\* run with a 'local' appointment left processes at least one, each
\* processed appointment ends 'synced' or 'error' and is not processed or
\* changed by a later run, and eventually no appointment is 'local',
\* whichever appointments fail.
C28_PushProgress ==
  /\ [][(run = Quiet("push") /\ run' = Quiet("import")) =>
          \E batch \in {LocalBatch(appts, last'.checked)} :
            /\ Len(batch) = last'.checked
            /\ ~NoLocal => last'.checked >= 1
            /\ \A a \in 1..Len(appts) :
                 IF a \in Range(batch)
                 THEN appts'[a].sync_state \in {"synced", "error"}
                 ELSE appts'[a] = appts[a]]_vars
  /\ (run # RunOff) ~> []NoLocal

\* the run with limit 1 that failed on the first appointment was followed
\* by a run that pushed the second
C28_Witness ==
  /\ run # RunOff
  /\ NoLocal
  /\ Len(appts) = 2
  /\ appts[1].sync_state = "error"
  /\ appts[2].sync_state = "synced"
  /\ UtcInstant(appts[2].last_synced_at) > UtcInstant(appts[1].last_synced_at)

\* ---------------------------------------------------------------------
CrmFields ==
  {"appointment_id", "property_code", "property_address", "agent_email",
   "agent_label", "contact_name", "contact_email", "contact_phone"}

\* the lines decoding looks at: those after the first open marker and
\* before the first close marker
InsideBlock(desc) ==
  {i \in 1..Len(desc) :
     /\ Find(desc, "open") # 0
     /\ Find(desc, "open") < i
     /\ i < Find(desc, "close")}

\* line i gives field f a value
SetsField(desc, i, f) ==
  /\ desc[i].kind = "kv"
  /\ Strip(desc[i].k) = f
  /\ f = "appointment_id" => IntOf(Strip(desc[i].v)) # Absent

\* the value the field takes from a line: trimmed, emails in lower case,
\* appointment_id as an integer
FieldValue(line, f) ==
  IF f \in {"agent_email", "contact_email"} THEN Lower(Strip(line.v))
  ELSE IF f = "appointment_id" THEN IntOf(Strip(line.v))
  ELSE Strip(line.v)

\* the last line of the block that gives f a value decides it
ExpectedField(desc, f) ==
  IF \E i \in InsideBlock(desc) : SetsField(desc, i, f)
  THEN FieldValue(desc[CHOOSE i \in InsideBlock(desc) :
                          /\ SetsField(desc, i, f)
                          /\ \A j \in InsideBlock(desc) :
                               SetsField(desc, j, f) => j <= i], f)
  ELSE Absent

\* an open marker followed, somewhere later, by a close marker
HasBothDelimiters(desc) ==
  \E i, j \in 1..Len(desc) :
    i < j /\ desc[i].kind = "open" /\ desc[j].kind = "close"

AllAbsent(crm) == \A f \in CrmFields : crm[f] = Absent

\* C29 as stated  Tolerant decode: _parse_crm_block returns a record for
\* every description; each field is decided by the lines of the block with
\* its own key, other lines contributing nothing, and is absent without
\* such a line; every field is absent only when the description does not
\* contain an open marker followed by a close marker.
C29_TolerantDecode ==
  codec.phase = "decoded" =>
    /\ DOMAIN codec.crm = CrmFields
    /\ \A f \in CrmFields : codec.crm[f] = ExpectedField(codec.description, f)
    /\ AllAbsent(codec.crm) => ~HasBothDelimiters(codec.description)

\* C29 amended  Tolerant decode: _parse_crm_block returns a record for every
\* description; each field is decided by the lines with its own key between
\* the first open marker and the first close marker, other lines
\* contributing nothing, and is absent without such a line; every field is
\* absent exactly when no line there gives a recognised field a value,
\* which includes every description without the two markers in that order.
C29_TolerantDecodeAmended ==
  codec.phase = "decoded" =>
    /\ DOMAIN codec.crm = CrmFields
    /\ \A f \in CrmFields : codec.crm[f] = ExpectedField(codec.description, f)
    /\ AllAbsent(codec.crm) <=>
         ~\E i \in InsideBlock(codec.description), f \in CrmFields :
            SetsField(codec.description, i, f)
    /\ ~HasBothDelimiters(codec.description) => AllAbsent(codec.crm)

\* the block the push encoder writes was decoded: both markers, one line
\* with the key 'agent', every field absent
C29_Witness ==
  /\ codec.phase = "decoded"
  /\ codec.description = <<Text("note", ""), OpenLine, KV("agent", "a@x"), CloseLine>>
  /\ AllAbsent(codec.crm)

\* ---------------------------------------------------------------------
\* C30  Counts partition the input: for every import that returns,
\* created + updated + skipped is the number of events fetched, every event
\* being counted exactly once, created is the number of appointments added
\* and updated the number of appointments overwritten; for every push,
\* checked = pushed + errors (and checked is the size of the batch).
C30_CountsPartition ==
  [][((Did("import") /\ ~last'.raised) =>
        /\ last'.created + last'.updated + last'.skipped = Len(events)
        /\ \A e \in 1..Len(events) : Cardinality(DecisionsFor(last', e)) = 1
        /\ Len(last'.decisions) = Len(events)
        /\ last'.created = Len(appts') - Len(appts)
        /\ last'.created =
             Cardinality({i \in 1..Len(last'.decisions) :
                            last'.decisions[i].res = "created"})
        /\ last'.updated =
             Cardinality({a \in 1..Len(appts) : appts'[a] # appts[a]})
        /\ last'.updated =
             Cardinality({i \in 1..Len(last'.decisions) :
                            last'.decisions[i].res = "updated"}))
     /\ ((Did("push") \/ Did("google_push")) =>
        /\ last'.checked = last'.pushed + last'.errors
        /\ last'.checked = Len(last'.batch))]_vars

\* an import of two events has returned: one made an appointment, the
\* other was skipped
C30_Witness ==
  /\ last.op = "import"
  /\ ~last.raised
  /\ Len(events) = 2
  /\ last.created = 1
  /\ last.skipped = 1
  /\ Len(appts) = 1

====
